---- MODULE Spec2Model ----
(***************************************************************************)
(* A model of the JavaScript kernel of jupyterlite/javascript-kernel:      *)
(* the source rewriter of JavaScriptExecutor (makeAsyncFromCode and its    *)
(* passes), the module-resolution policy (transformImportSource),          *)
(* extractImports, and JavaScriptKernel.executeRequest.                    *)
(*                                                                         *)
(* Text is a sequence of lexemes: an offset of the source counts lexemes,  *)
(* white space other than a line break is not represented, and a module    *)
(* specifier is a sequence of segments in which the prefixes and suffixes  *)
(* the resolution policy tests are segments of their own.  A JavaScript    *)
(* value is a sequence of strings.                                         *)
(***************************************************************************)
EXTENDS Integers, Sequences, FiniteSets, TLC

(***************************************************************************)
(* Bounds of the model.                                                    *)
(***************************************************************************)
\* The largest number of top-level statements of one cell.
MaxStmts == 2
\* The largest number of requests the kernel serves in one behaviour.
MaxRequests == 2

(***************************************************************************)
(* String operations of the source, on sequences of lexemes.               *)
(***************************************************************************)
\* String.prototype.substring(start, end): offsets are 0-based, end exclusive.
substring(code, start, end) == SubSeq(code, start + 1, end)

\* String.prototype.substring(start): to the end of the text.
substringFrom(code, start) == SubSeq(code, start + 1, Len(code))

\* String.prototype.startsWith.
startsWith(s, p) == Len(p) <= Len(s) /\ SubSeq(s, 1, Len(p)) = p

\* String.prototype.endsWith.
endsWith(s, p) == Len(p) <= Len(s) /\ SubSeq(s, Len(s) - Len(p) + 1, Len(s)) = p

\* Array.prototype.join of a list of texts with a separator text.
RECURSIVE join(_, _)
join(texts, sep) ==
  IF Len(texts) = 0 THEN <<>>
  ELSE IF Len(texts) = 1 THEN texts[1]
  ELSE texts[1] \o sep \o join(Tail(texts), sep)

\* The lexemes of a text that a predicate-set holds of, in order.
Occurs(text, lexeme) == \E i \in 1..Len(text) : text[i] = lexeme

(***************************************************************************)
(* ExecutorConfig: the magic-imports configuration.                        *)
(***************************************************************************)
DefaultBaseUrl == <<"https://", "cdn.jsdelivr.net", "/">>

ExecutorConfig ==
  [enabled |-> TRUE, baseUrl |-> DefaultBaseUrl, enableAutoNpm |-> TRUE]

noMagicStarts == { <<"http://">>, <<"https://">>, <<"data:">>, <<"file://">>, <<"blob:">> }

noEmsEnds == { <<".js">>, <<".mjs">>, <<".cjs">>, <<".wasm">>, <<"+esm">> }

npmStarts == { <<"npm/">>, <<"gh/">> }

\* transformImportSource with only http:// and https:// passed through.
transformImportSourceHttpOnly(source, magicImports) ==
  LET baseUrl == IF endsWith(magicImports.baseUrl, <<"/">>)
                 THEN magicImports.baseUrl
                 ELSE magicImports.baseUrl \o <<"/">>
      addEms == ~ \E e \in noEmsEnds : endsWith(source, e)
      emsExtraEnd == IF addEms
                     THEN (IF endsWith(source, <<"/">>) THEN <<"+esm">> ELSE <<"/", "+esm">>)
                     ELSE <<>>
  IN  IF ~ magicImports.enabled THEN source
      ELSE IF \E s \in { <<"http://">>, <<"https://">> } : startsWith(source, s)
      THEN source
      ELSE IF (\E s \in npmStarts : startsWith(source, s)) \/ ~ magicImports.enableAutoNpm
           THEN baseUrl \o source \o emsExtraEnd
      ELSE baseUrl \o <<"npm/">> \o source \o emsExtraEnd

\* transformImportSource with the configured baseUrl used as it is.
transformImportSourceRawBase(source, magicImports) ==
  LET baseUrl == magicImports.baseUrl
      addEms == ~ \E e \in noEmsEnds : endsWith(source, e)
      emsExtraEnd == IF addEms
                     THEN (IF endsWith(source, <<"/">>) THEN <<"+esm">> ELSE <<"/", "+esm">>)
                     ELSE <<>>
  IN  IF ~ magicImports.enabled THEN source
      ELSE IF \E s \in noMagicStarts : startsWith(source, s) THEN source
      ELSE IF (\E s \in npmStarts : startsWith(source, s)) \/ ~ magicImports.enableAutoNpm
           THEN baseUrl \o source \o emsExtraEnd
      ELSE baseUrl \o <<"npm/">> \o source \o emsExtraEnd

\* transformImportSource with "/+esm" appended also after a trailing slash.
transformImportSourceDoubleSlash(source, magicImports) ==
  LET baseUrl == IF endsWith(magicImports.baseUrl, <<"/">>)
                 THEN magicImports.baseUrl
                 ELSE magicImports.baseUrl \o <<"/">>
      addEms == ~ \E e \in noEmsEnds : endsWith(source, e)
      emsExtraEnd == IF addEms THEN <<"/", "+esm">> ELSE <<>>
  IN  IF ~ magicImports.enabled THEN source
      ELSE IF \E s \in noMagicStarts : startsWith(source, s) THEN source
      ELSE IF (\E s \in npmStarts : startsWith(source, s)) \/ ~ magicImports.enableAutoNpm
           THEN baseUrl \o source \o emsExtraEnd
      ELSE baseUrl \o <<"npm/">> \o source \o emsExtraEnd

\* transformImportSource: the module-resolution policy.
transformImportSource(source, magicImports) ==
  LET baseUrl == IF endsWith(magicImports.baseUrl, <<"/">>)
                 THEN magicImports.baseUrl
                 ELSE magicImports.baseUrl \o <<"/">>
      addEms == ~ \E e \in noEmsEnds : endsWith(source, e)
      emsExtraEnd == IF addEms
                     THEN (IF endsWith(source, <<"/">>) THEN <<"+esm">> ELSE <<"/", "+esm">>)
                     ELSE <<>>
  IN  IF ~ magicImports.enabled THEN source
      ELSE IF \E s \in noMagicStarts : startsWith(source, s) THEN source
      ELSE IF (\E s \in npmStarts : startsWith(source, s)) \/ ~ magicImports.enableAutoNpm
           THEN baseUrl \o source \o emsExtraEnd
      ELSE baseUrl \o <<"npm/">> \o source \o emsExtraEnd

(***************************************************************************)
(* The syntax tree of the parser (ESTree, as meriyah produces it with      *)
(* ranges: true).  Every node carries every field; a field that a node     *)
(* kind does not have holds an empty value.  A property that JavaScript    *)
(* reads as undefined and pastes into a template reads "undefined".        *)
(***************************************************************************)
NoExpression == [type |-> "", start |-> 0, end |-> 0]

Identifier(name) ==
  [type |-> "Identifier", name |-> name, properties |-> <<>>, elements |-> <<>>]

\* { key: value, ... } on the left of a declaration; a shorthand property
\* { a } has key a and value Identifier a.
ObjectPattern(properties) ==
  [type |-> "ObjectPattern", name |-> "undefined", properties |-> properties,
   elements |-> <<>>]

Property(key, value) == [key |-> [name |-> key], value |-> value]

NoPattern == [type |-> "", name |-> "undefined", properties |-> <<>>, elements |-> <<>>]

Node(type, len, expression, id, declarations, source, specifiers) ==
  [type |-> type, start |-> 0, end |-> len, expression |-> expression,
   id |-> id, declarations |-> declarations, source |-> [value |-> source],
   specifiers |-> specifiers]

\* An expression statement: the expression's lexemes, then ";" when terminated.
ExpressionStatement(expr, exprType, terminated) ==
  LET text == IF terminated THEN expr \o <<";">> ELSE expr
  IN  [text |-> text, diagnostic |-> "",
       node |-> Node("ExpressionStatement", Len(text),
                     [type |-> exprType, start |-> 0, end |-> Len(expr)],
                     NoPattern, <<>>, <<>>, <<>>)]

\* const <pattern> = <init>;
VariableDeclaration(patternText, pattern, init) ==
  LET text == <<"const">> \o patternText \o <<"=">> \o init \o <<";">>
  IN  [text |-> text, diagnostic |-> "",
       node |-> Node("VariableDeclaration", Len(text), NoExpression, NoPattern,
                     << [id |-> pattern] >>, <<>>, <<>>)]

\* function <name>(){}
FunctionDeclaration(name) ==
  LET text == <<"function", name, "(", ")", "{", "}">>
  IN  [text |-> text, diagnostic |-> "",
       node |-> Node("FunctionDeclaration", Len(text), NoExpression,
                     Identifier(name), <<>>, <<>>, <<>>)]

\* throw <expr>;
ThrowStatement(expr) ==
  LET text == <<"throw">> \o expr \o <<";">>
  IN  [text |-> text, diagnostic |-> "",
       node |-> Node("ThrowStatement", Len(text), NoExpression, NoPattern,
                     <<>>, <<>>, <<>>)]

ImportDefaultSpecifier(local) ==
  [type |-> "ImportDefaultSpecifier", imported |-> [name |-> "undefined"],
   local |-> [name |-> local]]

ImportNamespaceSpecifier(local) ==
  [type |-> "ImportNamespaceSpecifier", imported |-> [name |-> "undefined"],
   local |-> [name |-> local]]

ImportSpecifier(imported, local) ==
  [type |-> "ImportSpecifier", imported |-> [name |-> imported],
   local |-> [name |-> local]]

\* import <clause> from '<source>';   or   import '<source>';
ImportDeclaration(clauseText, specifiers, source) ==
  LET text == <<"import">> \o clauseText
              \o (IF Len(specifiers) = 0 THEN <<>> ELSE <<"from">>)
              \o <<"'">> \o source \o <<"'", ";">>
  IN  [text |-> text, diagnostic |-> "",
       node |-> Node("ImportDeclaration", Len(text), NoExpression, NoPattern,
                     <<>>, source, specifiers)]

\* A text the parser rejects, with the diagnostic it throws.
Unparsable(text, diagnostic) ==
  [text |-> text, diagnostic |-> diagnostic,
   node |-> Node("", Len(text), NoExpression, NoPattern, <<>>, <<>>, <<>>)]

(***************************************************************************)
(* The statements a cell is made of.                                       *)
(***************************************************************************)
Lodash == <<"lodash">>

Statements ==
  { ExpressionStatement(<<"5">>, "Literal", TRUE),
    ExpressionStatement(<<"0">>, "Literal", FALSE),
    ExpressionStatement(<<"''">>, "Literal", FALSE),
    ExpressionStatement(<<"false">>, "Literal", FALSE),
    ExpressionStatement(<<"null">>, "Literal", FALSE),
    ExpressionStatement(<<"undefined">>, "Identifier", FALSE),
    ExpressionStatement(<<"c">>, "Identifier", FALSE),
    ExpressionStatement(<<"c", "=", "5">>, "AssignmentExpression", FALSE),
    ExpressionStatement(<<"1", ",", "2">>, "SequenceExpression", FALSE),
    VariableDeclaration(<<"obj">>, Identifier("obj"), <<"{a:1,b:2}">>),
    VariableDeclaration(<<"{", "a", ",", "b", ":", "c", "}">>,
                        ObjectPattern(<< Property("a", Identifier("a")),
                                         Property("b", Identifier("c")) >>),
                        <<"obj">>),
    ImportDeclaration(<<>>, <<>>, Lodash),
    ImportDeclaration(<<"d", ",", "*", "as", "ns">>,
                      << ImportDefaultSpecifier("d"), ImportNamespaceSpecifier("ns") >>,
                      <<"https://", "cdn.example/x", ".js">>),
    ImportDeclaration(<<"{", "a", ",", "b", "as", "c", "}">>,
                      << ImportSpecifier("a", "a"), ImportSpecifier("b", "c") >>,
                      Lodash),
    ImportDeclaration(<<"{", "a", "as", "b", ",", "a", "as", "c", "}">>,
                      << ImportSpecifier("a", "b"), ImportSpecifier("a", "c") >>,
                      Lodash),
    Unparsable(<<")">>, "[1:0]: Unexpected token: ')'") }

\* The names a statement declares as lexical bindings of the cell.
RECURSIVE BoundNames(_)
BoundNames(pattern) ==
  IF pattern.type = "Identifier" THEN {pattern.name}
  ELSE UNION { BoundNames(pattern.properties[i].value) : i \in DOMAIN pattern.properties }

Declares(node) ==
  UNION { BoundNames(node.declarations[i].id) : i \in DOMAIN node.declarations }
  \cup (IF node.type = "FunctionDeclaration" THEN {node.id.name} ELSE {})
  \cup { node.specifiers[i].local.name : i \in DOMAIN node.specifiers }

\* A node moved to the offset at which its statement starts.
Shift(node, offset) ==
  [node EXCEPT !.start = @ + offset, !.end = @ + offset,
               !.expression.start = @ + offset, !.expression.end = @ + offset]

\* The content of a request that holds no text.
EmptyContent == [code |-> <<>>, body |-> <<>>, diagnostic |-> ""]

\* A request's text with one more statement on a line of its own, and what
\* the parser makes of it.
AppendStatement(content, stmt) ==
  LET sep == IF Len(content.code) = 0 THEN <<>> ELSE <<"\n">>
      at  == Len(content.code) + Len(sep)
  IN  [code |-> content.code \o sep \o stmt.text,
       body |-> Append(content.body, Shift(stmt.node, at)),
       diagnostic |-> IF content.diagnostic # "" THEN content.diagnostic
                      ELSE stmt.diagnostic]

\* An error value: the name and the message that a catch clause reads off it
\* (both empty when the thrown value is not an Error).
NoError == [name |-> "", message |-> <<>>]

\* parseScript(code, {ranges: true, module: true}): the tree, or the parser's throw.
parseScript(content) ==
  IF content.diagnostic # ""
  THEN [threw |-> TRUE,
        error |-> [name |-> "SyntaxError", message |-> << content.diagnostic >>],
        body |-> <<>>]
  ELSE [threw |-> FALSE, error |-> NoError,
        body |-> content.body]

(***************************************************************************)
(* The source rewriter of JavaScriptExecutor.                              *)
(***************************************************************************)
\* addToGlobalThisCode(key, identifier): globalThis["<key>"] = <identifier>;
addToGlobalThisCode(key, identifier) ==
  <<"globalThis[\"", key, "\"]", "=", identifier, ";">>

\* replaceCode(code, start, end, newCode)
replaceCode(code, start, end, newCode) ==
  substring(code, 0, start) \o newCode \o substringFrom(code, end)

\* The concatenation of a list of lists.
RECURSIVE Flatten(_)
Flatten(lists) ==
  IF Len(lists) = 0 THEN <<>> ELSE lists[1] \o Flatten(Tail(lists))

\* The export statements of one property of an object pattern.
propertyExports(prop) ==
  LET key == prop.key.name
  IN  IF key = "default"
      THEN (IF prop.value.type = "Identifier"
            THEN << addToGlobalThisCode(prop.value.name, prop.value.name) >>
            ELSE <<>>)
      ELSE << addToGlobalThisCode(key, key) >>

\* The export statements of one declarator of a variable declaration.
declarationExports(declaration) ==
  LET declarationType == declaration.id.type
  IN  IF declarationType = "ObjectPattern"
      THEN Flatten([i \in DOMAIN declaration.id.properties |->
                      propertyExports(declaration.id.properties[i])])
      ELSE IF declarationType = "ArrayPattern"
      THEN LET keys == SelectSeq(declaration.id.elements,
                                 LAMBDA el : el.type # "null")
           IN  [i \in DOMAIN keys |-> addToGlobalThisCode(keys[i].name, keys[i].name)]
      ELSE IF declarationType = "Identifier"
      THEN << addToGlobalThisCode(declaration.id.name, declaration.id.name) >>
      ELSE <<>>

\* The export statements of one top-level node.
nodeExports(node) ==
  IF node.type = "FunctionDeclaration" \/ node.type = "ClassDeclaration"
  THEN << addToGlobalThisCode(node.id.name, node.id.name) >>
  ELSE IF node.type = "VariableDeclaration"
  THEN Flatten([i \in DOMAIN node.declarations |->
                  declarationExports(node.declarations[i])])
  ELSE <<>>

\* addToGlobalScope(ast): the export statements, one per line.
addToGlobalScope(ast) ==
  join(Flatten([i \in DOMAIN ast.body |-> nodeExports(ast.body[i])]), <<"\n">>)

\* handleLastStatement without the test for an assignment expression.
handleLastStatementAnyExpression(code, ast) ==
  LET unchanged == [withReturn |-> FALSE, modifiedUserCode |-> code,
                    extraReturnCode |-> <<>>]
  IN  IF Len(ast.body) = 0 THEN unchanged
      ELSE
        LET lastNode == ast.body[Len(ast.body)]
            semicolonFound ==
              \E i \in lastNode.expression.end .. (lastNode.end - 1) : code[i + 1] = ";"
        IN  IF lastNode.type = "ExpressionStatement" /\ ~ semicolonFound
            THEN [withReturn |-> TRUE,
                  modifiedUserCode |-> substring(code, 0, lastNode.expression.start)
                                       \o substringFrom(code, lastNode.expression.end),
                  extraReturnCode |->
                    <<"return", "[">>
                    \o substring(code, lastNode.expression.start,
                                 lastNode.expression.end)
                    \o <<"]", ";">>]
            ELSE unchanged

\* handleLastStatement(code, ast)
handleLastStatement(code, ast) ==
  LET unchanged == [withReturn |-> FALSE, modifiedUserCode |-> code,
                    extraReturnCode |-> <<>>]
  IN  IF Len(ast.body) = 0 THEN unchanged
      ELSE
        LET lastNode == ast.body[Len(ast.body)]
            lastNodeExprStart == lastNode.expression.start
            lastNodeExprEnd == lastNode.expression.end
            lastNodeRestEnd == lastNode.end
            semicolonFound ==
              \E i \in lastNodeExprEnd .. (lastNodeRestEnd - 1) : code[i + 1] = ";"
        IN  IF /\ lastNode.type = "ExpressionStatement"
               /\ lastNode.expression.type # "AssignmentExpression"
               /\ ~ semicolonFound
            THEN [withReturn |-> TRUE,
                  modifiedUserCode |-> substring(code, 0, lastNodeExprStart)
                                       \o substringFrom(code, lastNodeExprEnd),
                  extraReturnCode |->
                    <<"return", "[">>
                    \o substring(code, lastNodeExprStart, lastNodeExprEnd)
                    \o <<"]", ";">>]
            ELSE unchanged

\* await import("<importSource>")
awaitImport(importSource) == <<"await", "import(\"">> \o importSource \o <<"\")">>

\* The bindings of the specifiers of one import declaration.
RECURSIVE importBindings(_, _)
importBindings(specifiers, acc) ==
  IF Len(specifiers) = 0 THEN acc
  ELSE
    LET specifier == specifiers[1]
        next ==
          IF specifier.type = "ImportSpecifier"
          THEN (IF specifier.imported.name = "default"
                THEN [acc EXCEPT !.hasDefaultImport = TRUE,
                                 !.defaultImportName = specifier.local.name]
                ELSE [acc EXCEPT !.importedNames = Append(@, specifier.imported.name),
                                 !.localNames = Append(@, specifier.local.name)])
          ELSE IF specifier.type = "ImportDefaultSpecifier"
          THEN [acc EXCEPT !.hasDefaultImport = TRUE,
                           !.defaultImportName = specifier.local.name]
          ELSE IF specifier.type = "ImportNamespaceSpecifier"
          THEN [acc EXCEPT !.hasNamespaceImport = TRUE,
                           !.namespaceImportName = specifier.local.name]
          ELSE acc
    IN  importBindings(Tail(specifiers), next)

noBindings ==
  [hasDefaultImport |-> FALSE, defaultImportName |-> "",
   hasNamespaceImport |-> FALSE, namespaceImportName |-> "",
   importedNames |-> <<>>, localNames |-> <<>>]

\* The names of the destructuring clause of the named imports, as written
\* between its braces.
namedClause(importedNames, localNames) ==
  join([j \in DOMAIN importedNames |-> << importedNames[j] >>], <<",">>)

\* The dynamic-import code that replaces one import declaration with specifiers.
newCodeOfNode(b, importSource) ==
  (IF b.hasDefaultImport
   THEN <<"const", "{", "default", ":", b.defaultImportName, "}", "=">>
        \o awaitImport(importSource) \o <<";", "\n">>
   ELSE <<>>)
  \o (IF b.hasNamespaceImport
      THEN <<"const", b.namespaceImportName, "=">>
           \o awaitImport(importSource) \o <<";", "\n">>
      ELSE <<>>)
  \o (IF Len(b.importedNames) > 0
      THEN <<"const", "{">> \o namedClause(b.importedNames, b.localNames)
           \o <<"}", "=">> \o awaitImport(importSource) \o <<";", "\n">>
      ELSE <<>>)

\* The export statements of one import declaration with specifiers.
importExports(b) ==
  (IF b.hasDefaultImport
   THEN addToGlobalThisCode(b.defaultImportName, b.defaultImportName) ELSE <<>>)
  \o (IF b.hasNamespaceImport
      THEN addToGlobalThisCode(b.namespaceImportName, b.namespaceImportName)
      ELSE <<>>)
  \o Flatten([j \in DOMAIN b.importedNames |->
                addToGlobalThisCode(b.localNames[j], b.importedNames[j])])

\* The loop of rewriteImportStatements, from node i down to the first node.
RECURSIVE rewriteImportsFrom(_, _, _, _)
rewriteImportsFrom(i, acc, ast, magicImports) ==
  IF i < 1 THEN acc
  ELSE
    LET node == ast.body[i]
    IN  IF node.type # "ImportDeclaration"
        THEN rewriteImportsFrom(i - 1, acc, ast, magicImports)
        ELSE
          LET importSource == transformImportSource(node.source.value, magicImports)
              b == importBindings(node.specifiers, noBindings)
          IN  IF Len(node.specifiers) = 0
              THEN rewriteImportsFrom(i - 1,
                     [acc EXCEPT !.modifiedUserCode =
                        replaceCode(@, node.start, node.end,
                                    awaitImport(importSource) \o <<";", "\n">>)],
                     ast, magicImports)
              ELSE rewriteImportsFrom(i - 1,
                     [modifiedUserCode |->
                        replaceCode(acc.modifiedUserCode, node.start, node.end,
                                    newCodeOfNode(b, importSource)),
                      codeAddToGlobalScope |->
                        acc.codeAddToGlobalScope \o importExports(b)],
                     ast, magicImports)

\* The loop of rewriteImportStatements run from the first node to the last.
RECURSIVE rewriteImportsUpFrom(_, _, _, _)
rewriteImportsUpFrom(i, acc, ast, magicImports) ==
  IF i > Len(ast.body) THEN acc
  ELSE
    LET node == ast.body[i]
    IN  IF node.type # "ImportDeclaration"
        THEN rewriteImportsUpFrom(i + 1, acc, ast, magicImports)
        ELSE
          LET importSource == transformImportSource(node.source.value, magicImports)
              b == importBindings(node.specifiers, noBindings)
          IN  IF Len(node.specifiers) = 0
              THEN rewriteImportsUpFrom(i + 1,
                     [acc EXCEPT !.modifiedUserCode =
                        replaceCode(@, node.start, node.end,
                                    awaitImport(importSource) \o <<";", "\n">>)],
                     ast, magicImports)
              ELSE rewriteImportsUpFrom(i + 1,
                     [modifiedUserCode |->
                        replaceCode(acc.modifiedUserCode, node.start, node.end,
                                    newCodeOfNode(b, importSource)),
                      codeAddToGlobalScope |->
                        acc.codeAddToGlobalScope \o importExports(b)],
                     ast, magicImports)

\* rewriteImportStatements processing the imports in source order.
rewriteImportStatementsForward(code, ast, magicImports) ==
  rewriteImportsUpFrom(1,
                       [modifiedUserCode |-> code, codeAddToGlobalScope |-> <<>>],
                       ast, magicImports)

\* rewriteImportStatements(code, ast)
rewriteImportStatements(code, ast, magicImports) ==
  rewriteImportsFrom(Len(ast.body),
                     [modifiedUserCode |-> code, codeAddToGlobalScope |-> <<>>],
                     ast, magicImports)

(***************************************************************************)
(* extractImports                                                          *)
(***************************************************************************)
\* An IImportInfo before its specifiers are read; an absent defaultImport or
\* namespaceImport is the empty name, and namedImports, an object keyed by
\* imported name, is the set of its <<imported name, local name>> entries.
newImportInfo(source, url) ==
  [source |-> source, url |-> url, defaultImport |-> "", namespaceImport |-> "",
   namedImports |-> {}]

\* importInfo.namedImports[imported] = local
setNamedImport(namedImports, imported, local) ==
  { p \in namedImports : p[1] # imported } \cup { <<imported, local>> }

\* The loop over node.specifiers in extractImports.
RECURSIVE readSpecifiers(_, _)
readSpecifiers(specifiers, info) ==
  IF Len(specifiers) = 0 THEN info
  ELSE
    LET specifier == specifiers[1]
        next ==
          IF specifier.type = "ImportDefaultSpecifier"
          THEN [info EXCEPT !.defaultImport = specifier.local.name]
          ELSE IF specifier.type = "ImportNamespaceSpecifier"
          THEN [info EXCEPT !.namespaceImport = specifier.local.name]
          ELSE IF specifier.type = "ImportSpecifier"
          THEN (IF specifier.imported.name = "default"
                THEN [info EXCEPT !.defaultImport = specifier.local.name]
                ELSE [info EXCEPT !.namedImports =
                        setNamedImport(@, specifier.imported.name,
                                       specifier.local.name)])
          ELSE info
    IN  readSpecifiers(Tail(specifiers), next)

\* The IImportInfo of one import declaration.
importInfo(node, magicImports) ==
  readSpecifiers(node.specifiers,
                 newImportInfo(node.source.value,
                               transformImportSource(node.source.value, magicImports)))

\* extractImports without its try/catch: the parser's error escapes.
extractImportsUncaught(content, magicImports) ==
  IF Len(content.code) = 0 THEN [threw |-> FALSE, imports |-> <<>>]
  ELSE IF parseScript(content).threw THEN [threw |-> TRUE, imports |-> <<>>]
  ELSE [threw |-> FALSE,
        imports |-> [i \in DOMAIN SelectSeq(content.body,
                                            LAMBDA n : n.type = "ImportDeclaration") |->
                       importInfo(SelectSeq(content.body,
                                    LAMBDA n : n.type = "ImportDeclaration")[i],
                                  magicImports)]]

\* extractImports(code): the list it returns, and whether it threw.
extractImports(content, magicImports) ==
  IF Len(content.code) = 0 THEN [threw |-> FALSE, imports |-> <<>>]
  ELSE
    LET ast == parseScript(content)
    IN  IF ast.threw THEN [threw |-> FALSE, imports |-> <<>>]
        ELSE
          LET nodes == SelectSeq(ast.body, LAMBDA n : n.type = "ImportDeclaration")
          IN  [threw |-> FALSE,
               imports |-> [i \in DOMAIN nodes |-> importInfo(nodes[i], magicImports)]]

(***************************************************************************)
(* The JavaScript engine, as far as the rewritten text of a cell uses it:  *)
(* the Function constructor and the evaluation of the function's body.     *)
(* A scope maps every name to its value, or to Unbound.                    *)
(***************************************************************************)
Names == {"obj", "a", "b", "c", "d", "ns", "display", "console"}

Unbound == <<>>

Undefined == <<"undefined">>

Literals == {"0", "1", "2", "5", "''", "false", "null", "undefined", "{a:1,b:2}"}

NoBindings == [n \in Names |-> Unbound]

\* The property of a value that a destructuring pattern or a member access reads.
GetProp(v, k) ==
  IF v = <<"{a:1,b:2}">> THEN (IF k = "a" THEN <<"1">>
                               ELSE IF k = "b" THEN <<"2">> ELSE Undefined)
  ELSE IF v = <<"window">> THEN (IF k \in {"display", "console"}
                                 THEN <<"function", k>> ELSE Undefined)
  ELSE IF Len(v) > 0 /\ v[1] = "module" THEN <<"export", k>> \o Tail(v)
  ELSE Undefined

\* The pieces of a text between the occurrences of a separator lexeme.
RECURSIVE Split(_, _)
Split(text, sep) ==
  IF Len(text) = 0 THEN <<>>
  ELSE
    LET S == {i \in 1..Len(text) : text[i] = sep}
    IN  IF S = {} THEN << text >>
        ELSE LET i == CHOOSE k \in S : \A l \in S : k <= l
             IN  << SubSeq(text, 1, i - 1) >> \o
                 (IF i = Len(text) THEN << <<>> >>
                  ELSE Split(SubSeq(text, i + 1, Len(text)), sep))

\* The first occurrence of one of the lexemes in a text, or one past its end.
First(text, lexemes) ==
  LET S == {i \in 1..Len(text) : text[i] \in lexemes}
  IN  IF S = {} THEN Len(text) + 1 ELSE CHOOSE k \in S : \A l \in S : k <= l

\* The bindings { key, key: local, ... } of an object pattern written as text:
\* a list of <<key, local>>.
PatternBindings(text) ==
  LET props == Split(text, ",")
  IN  [i \in DOMAIN props |->
         IF Len(props[i]) = 3 /\ props[i][2] = ":"
         THEN <<props[i][1], props[i][3]>>
         ELSE <<props[i][1], props[i][1]>>]

\* The statements of a function body: its text cut at ";" and at line breaks.
RECURSIVE StatementsOf(_)
StatementsOf(text) ==
  IF Len(text) = 0 THEN <<>>
  ELSE
    LET n == First(text, {";", "\n"})
        rest == IF n >= Len(text) THEN <<>> ELSE SubSeq(text, n + 1, Len(text))
    IN  IF n = 1 THEN StatementsOf(rest)
        ELSE << SubSeq(text, 1, n - 1) >> \o StatementsOf(rest)

\* The names a statement of a function body declares, in order.
DeclaredBy(stmt) ==
  IF stmt[1] = "const" /\ Len(stmt) >= 2
  THEN (IF stmt[2] = "{"
        THEN LET bs == PatternBindings(SubSeq(stmt, 3, First(stmt, {"}"}) - 1))
             IN  [i \in DOMAIN bs |-> bs[i][2]]
        ELSE << stmt[2] >>)
  ELSE IF stmt[1] = "function" /\ Len(stmt) >= 2 THEN << stmt[2] >>
  ELSE <<>>

DeclaredNames(text) ==
  LET stmts == StatementsOf(text)
  IN  Flatten([i \in DOMAIN stmts |-> DeclaredBy(stmts[i])])

\* The early error of a body that declares a name twice.
earlyError(names) ==
  IF \E i, j \in DOMAIN names : i < j /\ names[i] = names[j]
  THEN [threw |-> TRUE,
        error |-> [name |-> "SyntaxError",
                   message |-> <<"Identifier has already been declared">>]]
  ELSE [threw |-> FALSE, error |-> NoError]

\* new Function(text)
FunctionConstructor(text) == earlyError(DeclaredNames(text))

\* A primary expression: a literal, this, an identifier, a dynamic import.
\* env: the function's bindings (locals), the names still in their temporal
\* dead zone (tdz) and the global object (glob).
evalPrimary(e, env) ==
  IF Len(e) = 1
  THEN (IF e[1] \in Literals THEN [threw |-> FALSE, value |-> e, error |-> NoError]
        ELSE IF e[1] = "this"
        THEN [threw |-> FALSE, value |-> <<"window">>, error |-> NoError]
        ELSE IF e[1] \in Names /\ env.locals[e[1]] # Unbound
        THEN [threw |-> FALSE, value |-> env.locals[e[1]], error |-> NoError]
        ELSE IF e[1] \in env.tdz
        THEN [threw |-> TRUE, value |-> Undefined,
              error |-> [name |-> "ReferenceError",
                         message |-> <<"Cannot access", e[1],
                                       "before initialization">>]]
        ELSE IF e[1] \in Names /\ env.glob[e[1]] # Unbound
        THEN [threw |-> FALSE, value |-> env.glob[e[1]], error |-> NoError]
        ELSE [threw |-> TRUE, value |-> Undefined,
              error |-> [name |-> "ReferenceError",
                         message |-> <<e[1], "is not defined">>]])
  ELSE IF Len(e) >= 3 /\ e[1] = "await" /\ e[2] = "import(\"" /\ e[Len(e)] = "\")"
  THEN [threw |-> FALSE, value |-> <<"module">> \o SubSeq(e, 3, Len(e) - 1),
        error |-> NoError]
  ELSE [threw |-> TRUE, value |-> Undefined,
        error |-> [name |-> "SyntaxError", message |-> <<"Unexpected token">>]]

\* The result of an expression with the environment it leaves.
withEnv(r, env) == r @@ [env |-> env]

\* globalThis["<key>"] = <value of r>
assignGlobalThis(key, r, env) ==
  IF r.threw THEN withEnv(r, env)
  ELSE withEnv(r, [env EXCEPT !.glob[key] = r.value])

\* <name> = <value of r>: an assignment to a name that is no binding of the
\* function creates or overwrites a property of the global object.
assignName(name, r, env) ==
  IF r.threw THEN withEnv(r, env)
  ELSE IF name \in env.tdz
  THEN [threw |-> TRUE, value |-> Undefined, env |-> env,
        error |-> [name |-> "ReferenceError",
                   message |-> <<"Cannot access", name, "before initialization">>]]
  ELSE IF env.locals[name] # Unbound
  THEN [threw |-> TRUE, value |-> Undefined, env |-> env,
        error |-> [name |-> "TypeError",
                   message |-> <<"Assignment to constant variable.">>]]
  ELSE withEnv(r, [env EXCEPT !.glob[name] = r.value])

\* An assignment expression, or a primary expression: the value and the
\* environment after it.
evalAssignment(e, env) ==
  IF Len(e) >= 5 /\ e[1] = "globalThis[\"" /\ e[3] = "\"]" /\ e[4] = "="
  THEN assignGlobalThis(e[2], evalPrimary(SubSeq(e, 5, Len(e)), env), env)
  ELSE IF Len(e) >= 3 /\ e[2] = "="
  THEN assignName(e[1], evalPrimary(SubSeq(e, 3, Len(e)), env), env)
  ELSE withEnv(evalPrimary(e, env), env)

\* A list of expressions evaluated from left to right: the values, and the
\* environment after the last one, or the first error.
RECURSIVE evalList(_, _, _)
evalRest(r, parts, values) ==
  IF r.threw
  THEN [threw |-> TRUE, values |-> values, error |-> r.error, env |-> r.env]
  ELSE evalList(parts, r.env, Append(values, r.value))

evalList(parts, env, values) ==
  IF Len(parts) = 0
  THEN [threw |-> FALSE, values |-> values, error |-> NoError, env |-> env]
  ELSE evalRest(evalAssignment(parts[1], env), Tail(parts), values)

\* The value of a list of operands of the comma operator: the last one.
lastValue(r) ==
  [threw |-> r.threw, error |-> r.error, env |-> r.env,
   value |-> IF r.threw \/ Len(r.values) = 0 THEN Undefined
             ELSE r.values[Len(r.values)]]

\* An expression: the comma operator evaluates its operands in order and
\* yields the last.
evalExpression(e, env) == lastValue(evalList(Split(e, ","), env, <<>>))

\* The run of a function body: running, returned (with the returned array in
\* holder) or threw (with the error).
Running(env) ==
  [status |-> "running", holder |-> <<>>, error |-> NoError, env |-> env]

Threw(error, env) ==
  [status |-> "threw", holder |-> <<>>, error |-> error, env |-> env]

\* The bindings of a destructuring pattern, made from left to right.
RECURSIVE bindPattern(_, _, _)
bindPattern(bindings, v, env) ==
  IF Len(bindings) = 0 THEN env
  ELSE bindPattern(Tail(bindings), v,
         [env EXCEPT !.locals[bindings[1][2]] = GetProp(v, bindings[1][1]),
                     !.tdz = @ \ {bindings[1][2]}])

\* const { <pattern> } = <value of r>
declarePattern(patternText, r) ==
  IF r.threw THEN Threw(r.error, r.env)
  ELSE IF r.value \in {Undefined, <<"null">>}
  THEN Threw([name |-> "TypeError", message |-> <<"Cannot destructure">>], r.env)
  ELSE Running(bindPattern(PatternBindings(patternText), r.value, r.env))

\* const <name> = <value of r>
declareName(name, r) ==
  IF r.threw THEN Threw(r.error, r.env)
  ELSE Running([r.env EXCEPT !.locals[name] = r.value, !.tdz = @ \ {name}])

\* return [<values of r>];
returnArray(r) ==
  IF r.threw THEN Threw(r.error, r.env)
  ELSE [status |-> "returned", holder |-> r.values, error |-> NoError, env |-> r.env]

\* throw <value of r>;
throwValue(r) == Threw(r.error, r.env)

\* <value of r>;
discardValue(r) == IF r.threw THEN Threw(r.error, r.env) ELSE Running(r.env)

\* One statement of the function body.
execStatement(stmt, env) ==
  IF stmt[1] = "const" /\ Len(stmt) >= 4 /\ stmt[2] = "{"
  THEN declarePattern(SubSeq(stmt, 3, First(stmt, {"}"}) - 1),
                      evalExpression(SubSeq(stmt, First(stmt, {"}"}) + 2, Len(stmt)),
                                     env))
  ELSE IF stmt[1] = "const" /\ Len(stmt) >= 4
  THEN declareName(stmt[2], evalExpression(SubSeq(stmt, 4, Len(stmt)), env))
  ELSE IF stmt[1] = "function" THEN Running(env)
  ELSE IF stmt[1] = "return" /\ Len(stmt) >= 3
  THEN returnArray(evalList(Split(SubSeq(stmt, 3, Len(stmt) - 1), ","), env, <<>>))
  ELSE IF stmt[1] = "throw"
  THEN throwValue(evalExpression(SubSeq(stmt, 2, Len(stmt)), env))
  ELSE discardValue(evalExpression(stmt, env))

\* The statements of the body, in order, until one returns or throws.
RECURSIVE execFrom(_, _)
execFrom(stmts, run) ==
  IF Len(stmts) = 0 \/ run.status # "running" THEN run
  ELSE execFrom(Tail(stmts), execStatement(stmts[1], run.env))

\* The environment in which the body starts: function declarations are
\* hoisted, const names start in their temporal dead zone.
initialEnv(stmts, glob) ==
  [locals |-> [n \in Names |->
                 IF \E i \in DOMAIN stmts : stmts[i][1] = "function" /\ stmts[i][2] = n
                 THEN <<"function", n>> ELSE Unbound],
   tdz |-> {n \in Names : \E i \in DOMAIN stmts :
              stmts[i][1] = "const" /\
              \E j \in DOMAIN DeclaredBy(stmts[i]) : DeclaredBy(stmts[i])[j] = n},
   glob |-> glob]

\* The promise of a finished run: resolved with the returned array
\* (undefined when the body ends without return) or rejected.
settle(run) ==
  [status |-> IF run.status = "threw" THEN "rejected" ELSE "resolved",
   holder |-> run.holder, error |-> run.error, glob |-> run.env.glob]

runBody(stmts, glob) == settle(execFrom(stmts, Running(initialEnv(stmts, glob))))

\* asyncFunction.call(win)
callAsyncFunction(text, glob) == runBody(StatementsOf(text), glob)

(***************************************************************************)
(* makeAsyncFromCode                                                       *)
(***************************************************************************)
\* const { display, console } = this;
builtinsCode == <<"const", "{", "display", ",", "console", "}", "=", "this", ";">>

\* What makeAsyncFromCode returns when it returns nothing to run.
NoUnit ==
  [threw |-> FALSE, error |-> NoError,
   withReturn |-> FALSE, modifiedUserCode |-> <<>>, finalCode |-> <<>>,
   codeAddToGlobalScope |-> <<>>, extraReturnCode |-> <<>>,
   asyncFunction |-> <<>>]

\* The text handed to new Function with the return ahead of the exports.
functionTextReturnFirst(finalCode, codeAddToGlobalScope, extraReturnCode) ==
  builtinsCode \o <<"\n">>
  \o <<"\n">> \o finalCode \o <<"\n">> \o extraReturnCode
  \o <<"\n">> \o codeAddToGlobalScope \o <<"\n">>

\* The text handed to new Function: the builtins line, then combinedCode.
functionText(finalCode, codeAddToGlobalScope, extraReturnCode) ==
  builtinsCode \o <<"\n">>
  \o <<"\n">> \o finalCode \o <<"\n">> \o codeAddToGlobalScope
  \o <<"\n">> \o extraReturnCode \o <<"\n">>

\* new Function(...)(): the unit, or the constructor's early error.
construct(unit, built) ==
  IF built.threw THEN [NoUnit EXCEPT !.threw = TRUE, !.error = built.error]
  ELSE unit

\* The last steps of makeAsyncFromCode, from the results of its three passes.
assemble(declared, lastResult, importResult) ==
  construct(
    [threw |-> FALSE, error |-> NoError,
     withReturn |-> lastResult.withReturn,
     modifiedUserCode |-> lastResult.modifiedUserCode,
     finalCode |-> importResult.modifiedUserCode,
     codeAddToGlobalScope |-> declared \o importResult.codeAddToGlobalScope,
     extraReturnCode |-> lastResult.extraReturnCode,
     asyncFunction |->
       functionText(importResult.modifiedUserCode,
                    declared \o importResult.codeAddToGlobalScope,
                    lastResult.extraReturnCode)],
    FunctionConstructor(
      functionText(importResult.modifiedUserCode,
                   declared \o importResult.codeAddToGlobalScope,
                   lastResult.extraReturnCode)))

\* The import pass runs on the text the implicit-result pass left.
lowerImports(declared, lastResult, ast, magicImports) ==
  assemble(declared, lastResult,
           rewriteImportStatements(lastResult.modifiedUserCode, ast, magicImports))

\* makeAsyncFromCode with the parser's error swallowed: nothing to run.
rewriteSwallowing(code, ast, magicImports) ==
  IF ast.threw THEN NoUnit
  ELSE lowerImports(addToGlobalScope(ast), handleLastStatement(code, ast),
                    ast, magicImports)

\* makeAsyncFromCode once the text is parsed.
rewrite(code, ast, magicImports) ==
  IF ast.threw THEN [NoUnit EXCEPT !.threw = TRUE, !.error = ast.error]
  ELSE lowerImports(addToGlobalScope(ast), handleLastStatement(code, ast),
                    ast, magicImports)

\* makeAsyncFromCode(code): the text of the asynchronous function and the
\* withReturn flag, or the error it throws.
makeAsyncFromCode(content, magicImports) ==
  IF Len(content.code) = 0 THEN NoUnit
  ELSE rewrite(content.code, parseScript(content), magicImports)

(***************************************************************************)
(* Runtime values, as getMimeBundle reads them.  A text is a sequence of   *)
(* lexemes.  What a call or a property read does is an outcome: the        *)
(* property is absent, the call throws, or it returns a string, a number,  *)
(* null or an object (entries: the set of its <<key, text>> properties).   *)
(***************************************************************************)
Absent ==
  [does |-> "absent", type |-> "undefined", text |-> <<>>, entries |-> {},
   error |-> NoError]

Throws(name, message) ==
  [does |-> "throws", type |-> "undefined", text |-> <<>>, entries |-> {},
   error |-> [name |-> name, message |-> message]]

ReturnsString(text) ==
  [does |-> "returns", type |-> "string", text |-> text, entries |-> {},
   error |-> NoError]

ReturnsNumber(text) ==
  [does |-> "returns", type |-> "number", text |-> text, entries |-> {},
   error |-> NoError]

ReturnsNull ==
  [does |-> "returns", type |-> "null", text |-> <<>>, entries |-> {},
   error |-> NoError]

ReturnsObject(entries) ==
  [does |-> "returns", type |-> "object", text |-> <<>>, entries |-> entries,
   error |-> NoError]

MethodNames ==
  {"_toMime", "_toHtml", "_toSvg", "_toPng", "_toJpeg", "_toMarkdown", "_toLatex",
   "inspect"}

NoMethods == [m \in MethodNames |-> Absent]

\* An element of an array, a Set or a Map, or the value of a property: its
\* typeof ("null" and "array" set apart), its text, and what String() does.
Item(type, text) == [type |-> type, text |-> text, String |-> ReturnsString(text)]

\* A property of an object: its key and its value.
Prop(key, item) == [key |-> key, value |-> item]

\* A runtime value.  kind: its typeof, or for an object the built-in it is
\* an instance of; text: how the value is written; name: the name of a
\* function, or of an object's constructor; String: what String(value) and
\* value.toString() do; items: the elements of an array or a Set, or the
\* keys and values of a Map in turn; props: its own enumerable properties,
\* in order; ownKeys: what Object.keys(value) does (it returns the keys of
\* props, or throws); data: what reading value.data gives.
Value(kind, text) ==
  [kind |-> kind, text |-> text, name |-> "", stack |-> <<>>,
   String |-> ReturnsString(text), toISOString |-> Absent, toDataURL |-> Absent,
   width |-> "", height |-> "", length |-> "0",
   items |-> <<>>, props |-> <<>>, ownKeys |-> ReturnsObject({}),
   methods |-> NoMethods, data |-> Absent, cyclic |-> FALSE]

Primitives ==
  {"null", "undefined", "string", "number", "boolean", "symbol", "bigint"}

typeof(value) ==
  IF value.kind = "null" THEN "object"
  ELSE IF value.kind \in Primitives \cup {"function"} THEN value.kind
  ELSE "object"

(***************************************************************************)
(* getMimeBundle and its helpers.  A bundle is an object whose entries     *)
(* are <<media type, representation>>.                                     *)
(***************************************************************************)
maxItems == 10

maxProps == 5

WhiteSpace == {" ", "\n", "\t"}

RECURSIVE trimStart(_)
trimStart(text) ==
  IF Len(text) > 0 /\ text[1] \in WhiteSpace THEN trimStart(Tail(text)) ELSE text

RECURSIVE trimEnd(_)
trimEnd(text) ==
  IF Len(text) > 0 /\ text[Len(text)] \in WhiteSpace
  THEN trimEnd(SubSeq(text, 1, Len(text) - 1)) ELSE text

trim(text) == trimEnd(trimStart(text))

escapeHtml(text) ==
  [i \in DOMAIN text |->
     IF text[i] = "&" THEN "&amp;"
     ELSE IF text[i] = "<" THEN "&lt;"
     ELSE IF text[i] = ">" THEN "&gt;"
     ELSE IF text[i] = "\"" THEN "&quot;"
     ELSE IF text[i] = "'" THEN "&#39;"
     ELSE text[i]]

\* arr.slice(0, n)
slice(arr, n) == SubSeq(arr, 1, IF Len(arr) < n THEN Len(arr) ELSE n)

\* The items whose conversion by String() throws.
Unprintable(items) ==
  { i \in DOMAIN items :
      /\ items[i].type \notin {"null", "undefined", "string", "object", "array"}
      /\ items[i].String.does = "throws" }

\* How formatArrayPreview writes one item.
arrayItemText(item) ==
  IF item.type = "null" THEN <<"null">>
  ELSE IF item.type = "undefined" THEN <<"undefined">>
  ELSE IF item.type = "string" THEN <<"'">> \o item.text \o <<"'">>
  ELSE IF item.type = "array" THEN <<"Array(">> \o item.text \o <<")">>
  ELSE IF item.type = "object" THEN <<"{...}">>
  ELSE item.String.text

formatArrayPreview(arr) ==
  IF Len(arr) = 0 THEN ReturnsString(<<"[]">>)
  ELSE IF Unprintable(slice(arr, maxItems)) # {}
  THEN Throws("Error", <<"String">>)
  ELSE ReturnsString(
         <<"[">>
         \o join([i \in DOMAIN slice(arr, maxItems) |->
                    arrayItemText(slice(arr, maxItems)[i])], <<", ">>)
         \o (IF Len(arr) > maxItems
             THEN <<", ... (", ToString(Len(arr)), " items)">> ELSE <<>>)
         \o <<"]">>)

\* How formatObjectPreview writes the value of one property.
propertyText(item) ==
  IF item.type = "null" THEN <<"null">>
  ELSE IF item.type = "undefined" THEN <<"undefined">>
  ELSE IF item.type = "string"
  THEN <<"'">>
       \o (IF Len(item.text) > 20 THEN substring(item.text, 0, 20) \o <<"...">>
           ELSE item.text)
       \o <<"'">>
  ELSE IF item.type = "array" THEN <<"Array(">> \o item.text \o <<")">>
  ELSE IF item.type = "object" THEN <<"{...}">>
  ELSE IF item.type = "function" THEN <<"[Function]">>
  ELSE IF item.String.does = "throws" THEN <<"<error>">>
  ELSE item.String.text

formatObjectPreview(obj) ==
  IF obj.ownKeys.does = "throws" THEN obj.ownKeys
  ELSE IF Len(obj.props) = 0 THEN ReturnsString(<<"{}">>)
  ELSE ReturnsString(
         (IF obj.name # "" /\ obj.name # "Object" THEN <<obj.name, " ">> ELSE <<>>)
         \o <<"{ ">>
         \o join([i \in DOMAIN slice(obj.props, maxProps) |->
                    <<obj.props[i].key, ": ">> \o propertyText(obj.props[i].value)],
                 <<", ">>)
         \o (IF Len(obj.props) > maxProps THEN <<", ...">> ELSE <<>>)
         \o <<" }">>)

formatNonSerializableObject(obj) ==
  IF obj.ownKeys.does = "throws" THEN obj.ownKeys
  ELSE ReturnsString(<< IF obj.name = "" THEN "Object" ELSE obj.name, " { ",
                        ToString(Len(obj.props)), " properties }" >>)

\* The media type that each presentation method of the probe fills in.
Probes ==
  { <<"_toHtml", "text/html">>, <<"_toSvg", "image/svg+xml">>,
    <<"_toPng", "image/png">>, <<"_toJpeg", "image/jpeg">>,
    <<"_toMarkdown", "text/markdown">>, <<"_toLatex", "text/latex">> }

\* One step of the probe: the method is a function, returns, and returns a string.
probe(value, method, mime) ==
  IF value.methods[method].does = "returns" /\ value.methods[method].type = "string"
  THEN { <<mime, value.methods[method].text>> } ELSE {}

\* The probe with one try/catch around all its steps: a throw ends it empty.
customOutputAllOrNothing(value) ==
  IF \E p \in Probes : value.methods[p[1]].does = "throws" THEN {}
  ELSE UNION { probe(value, p[1], p[2]) : p \in Probes }

\* The loop of probes of getCustomMimeBundle.
customOutput(value) == UNION { probe(value, p[1], p[2]) : p \in Probes }

\* The text/plain entry that closes a bundle of the probe.
withTextPlain(value, bundle) ==
  IF value.methods["inspect"].does = "returns"
  THEN ReturnsObject(bundle \cup { <<"text/plain", value.methods["inspect"].text>> })
  ELSE IF value.String.does = "throws" THEN value.String
  ELSE ReturnsObject(bundle \cup { <<"text/plain", value.String.text>> })

\* getCustomMimeBundle with the probe run before _toMime is looked at.
getCustomMimeBundleProbeFirst(value) ==
  IF customOutput(value) # {} THEN withTextPlain(value, customOutput(value))
  ELSE IF value.methods["_toMime"].does = "returns"
          /\ value.methods["_toMime"].type = "object"
  THEN value.methods["_toMime"]
  ELSE ReturnsNull

\* getCustomMimeBundle(value): the bundle, or null.
getCustomMimeBundle(value) ==
  IF value.methods["_toMime"].does = "returns"
     /\ value.methods["_toMime"].type = "object"
  THEN value.methods["_toMime"]
  ELSE IF customOutput(value) = {} THEN ReturnsNull
  ELSE withTextPlain(value, customOutput(value))

\* Map(n) { k => v, ... }
mapText(value) ==
  IF Unprintable([i \in DOMAIN value.items |->
                    [value.items[i] EXCEPT !.type = "number"]]) # {}
  THEN ReturnsObject({ <<"text/plain", <<"Map(", value.length, ")">> >> })
  ELSE ReturnsObject(
         { <<"text/plain",
             <<"Map(", value.length, ") { ">>
             \o join([i \in 1..(Len(value.items) \div 2) |->
                        value.items[2 * i - 1].String.text \o <<" => ">>
                        \o value.items[2 * i].String.text], <<", ">>)
             \o <<" }">> >>,
           <<"application/json", value.text>> })

\* Set(n) { v, ... }
setText(value) ==
  IF Unprintable([i \in DOMAIN value.items |->
                    [value.items[i] EXCEPT !.type = "number"]]) # {}
  THEN ReturnsObject({ <<"text/plain", <<"Set(", value.length, ")">> >> })
  ELSE ReturnsObject(
         { <<"text/plain",
             <<"Set(", value.length, ") { ">>
             \o join([i \in DOMAIN value.items |-> value.items[i].String.text],
                     <<", ">>)
             \o <<" }">> >>,
           <<"application/json", value.text>> })

\* getDOMElementMimeBundle(element); text is the element's outerHTML.
getDOMElementMimeBundle(element) ==
  IF element.kind = "HTMLCanvasElement"
  THEN (IF element.toDataURL.does = "returns"
        THEN ReturnsObject(
               { <<"image/png", element.toDataURL.text>>,
                 <<"text/plain", <<"<canvas width=\"", element.width,
                                   "\" height=\"", element.height, "\">">> >> })
        ELSE ReturnsObject({ <<"text/plain", element.text>> }))
  ELSE ReturnsObject({ <<"text/html", element.text>>, <<"text/plain", element.text>> })

\* The branches of getMimeBundle for the objects that have no custom bundle.
objectMimeBundle(value) ==
  IF value.kind = "Error"
  THEN (IF value.stack # <<>>
        THEN ReturnsObject({ <<"text/plain", value.stack>>,
                             <<"application/json", value.text>> })
        ELSE IF value.String.does = "throws" THEN value.String
        ELSE ReturnsObject({ <<"text/plain", value.String.text>>,
                             <<"application/json", value.text>> }))
  ELSE IF value.kind = "Date"
  THEN (IF value.toISOString.does = "throws" THEN value.toISOString
        ELSE ReturnsObject({ <<"text/plain", value.toISOString.text>>,
                             <<"application/json", value.toISOString.text>> }))
  ELSE IF value.kind = "RegExp"
  THEN (IF value.String.does = "throws" THEN value.String
        ELSE ReturnsObject({ <<"text/plain", value.String.text>> }))
  ELSE IF value.kind = "Map" THEN mapText(value)
  ELSE IF value.kind = "Set" THEN setText(value)
  ELSE IF value.kind \in {"HTMLElement", "HTMLCanvasElement"}
  THEN getDOMElementMimeBundle(value)
  ELSE IF value.kind = "Array"
  THEN (IF formatArrayPreview(value.items).does = "throws"
        THEN ReturnsObject({ <<"text/plain", <<"Array(", value.length, ")">> >> })
        ELSE ReturnsObject({ <<"application/json", value.text>>,
                             <<"text/plain", formatArrayPreview(value.items).text>> }))
  ELSE IF value.kind = "TypedArray"
  THEN ReturnsObject({ <<"text/plain", <<value.name, "(", value.length, ")">> >> })
  ELSE IF value.kind = "Promise"
  THEN ReturnsObject({ <<"text/plain", <<"Promise { <pending> }">> >> })
  ELSE IF value.data.does = "returns" /\ value.data.type \in {"object", "null"}
  THEN value.data
  ELSE IF formatObjectPreview(value).does = "returns"
  THEN ReturnsObject({ <<"application/json", value.text>>,
                       <<"text/plain", formatObjectPreview(value).text>> })
  ELSE IF formatNonSerializableObject(value).does = "throws"
  THEN formatNonSerializableObject(value)
  ELSE ReturnsObject({ <<"text/plain", formatNonSerializableObject(value).text>> })

\* The branches of getMimeBundle for the values that are no objects.
primitiveMimeBundle(value) ==
  IF value.kind = "string"
  THEN (IF startsWith(trim(value.text), <<"<">>) /\ endsWith(trim(value.text), <<">">>)
        THEN ReturnsObject({ <<"text/html", value.text>>, <<"text/plain", value.text>> })
        ELSE ReturnsObject({ <<"text/plain", <<"'">> \o value.text \o <<"'">> >> }))
  ELSE IF value.kind \in {"number", "boolean", "symbol"}
  THEN ReturnsObject({ <<"text/plain", value.text>> })
  ELSE IF value.kind = "bigint"
  THEN ReturnsObject({ <<"text/plain", value.text \o <<"n">> >> })
  ELSE IF value.String.does = "throws" THEN value.String
  ELSE ReturnsObject(
         { <<"text/plain",
             <<"[Function: ", IF value.name = "" THEN "anonymous" ELSE value.name,
               "]">> >>,
           <<"text/html",
             <<"<pre style=\"margin:0\"><code>">> \o escapeHtml(value.String.text)
             \o <<"</code></pre>">> >> })

\* getMimeBundle(value): the bundle it returns, or its throw.
getMimeBundle(value) ==
  IF value.kind = "null" THEN ReturnsObject({ <<"text/plain", <<"null">> >> })
  ELSE IF value.kind = "undefined"
  THEN ReturnsObject({ <<"text/plain", <<"undefined">> >> })
  ELSE IF typeof(value) # "object" THEN primitiveMimeBundle(value)
  ELSE IF getCustomMimeBundle(value) # ReturnsNull THEN getCustomMimeBundle(value)
  ELSE objectMimeBundle(value)

\* The runtime value that a value of a cell of this model is.
runtimeValue(v) ==
  IF v = <<"null">> THEN Value("null", v)
  ELSE IF v = Undefined THEN Value("undefined", v)
  ELSE IF v = <<"''">> THEN Value("string", <<>>)
  ELSE IF v \in { <<"0">>, <<"1">>, <<"2">>, <<"5">> } THEN Value("number", v)
  ELSE IF v = <<"false">> THEN Value("boolean", v)
  ELSE IF v[1] = "function"
  THEN [Value("function", <<"function", v[2], "(", ")", "{", "}">>)
          EXCEPT !.name = v[2]]
  ELSE IF v = <<"{a:1,b:2}">>
  THEN [Value("Object", v) EXCEPT !.name = "Object", !.length = "undefined",
          !.props = << Prop("a", Item("number", <<"1">>)),
                       Prop("b", Item("number", <<"2">>)) >>]
  ELSE [Value("Object", v) EXCEPT !.name = "Object", !.length = "undefined"]

(***************************************************************************)
(* JavaScriptKernel.executeRequest                                         *)
(***************************************************************************)
NoMessage == [type |-> "", data |-> {}, ename |-> "", evalue |-> <<>>]

ExecuteResult(data) == [NoMessage EXCEPT !.type = "execute_result", !.data = data]

ExecuteError(ename, evalue) ==
  [NoMessage EXCEPT !.type = "execute_error", !.ename = ename, !.evalue = evalue]

\* name || 'Error'
NameOrError(name) == IF name = "" THEN "Error" ELSE name

\* The catch clause of executeRequest without publishExecuteError.
failedSilently(unit, error, called, glob) ==
  [unit |-> unit, called |-> called, resultHolder |-> <<>>,
   published |-> <<>>,
   glob |-> glob,
   reply |-> [status |-> "error", ename |-> NameOrError(error.name),
              evalue |-> error.message]]

\* The catch clause of executeRequest.
failed(unit, error, called, glob) ==
  [unit |-> unit, called |-> called, resultHolder |-> <<>>,
   published |-> << ExecuteError(NameOrError(error.name), error.message) >>,
   glob |-> glob,
   reply |-> [status |-> "error", ename |-> NameOrError(error.name),
              evalue |-> error.message]]

\* resultHolder[0]
firstOf(resultHolder) ==
  IF Len(resultHolder) = 0 THEN Undefined ELSE resultHolder[1]

\* const result = resultHolder[0], when the unit has a captured result.
captured(unit, call) ==
  IF unit.withReturn THEN firstOf(call.holder) ELSE Undefined

\* executeRequest with a truthiness test (if (result)) on the captured value.
afterCallTruthy(unit, call) ==
  IF call.status = "rejected" THEN failed(unit, call.error, TRUE, call.glob)
  ELSE IF /\ captured(unit, call) \notin
               { Undefined, <<"0">>, <<"''">>, <<"false">>, <<"null">> }
          /\ getMimeBundle(runtimeValue(captured(unit, call))).does = "throws"
  THEN failed(unit, getMimeBundle(runtimeValue(captured(unit, call))).error,
              TRUE, call.glob)
  ELSE [unit |-> unit, called |-> TRUE, resultHolder |-> call.holder,
        published |->
          IF captured(unit, call) \notin
               { Undefined, <<"0">>, <<"''">>, <<"false">>, <<"null">> }
          THEN << ExecuteResult(
                    getMimeBundle(runtimeValue(captured(unit, call))).entries) >>
          ELSE <<>>,
        glob |-> call.glob,
        reply |-> [status |-> "ok", ename |-> "", evalue |-> <<>>]]

\* executeRequest once the promise of the unit is settled.
afterCall(unit, call) ==
  IF call.status = "rejected" THEN failed(unit, call.error, TRUE, call.glob)
  ELSE IF /\ captured(unit, call) # Undefined
          /\ getMimeBundle(runtimeValue(captured(unit, call))).does = "throws"
  THEN failed(unit, getMimeBundle(runtimeValue(captured(unit, call))).error,
              TRUE, call.glob)
  ELSE [unit |-> unit, called |-> TRUE, resultHolder |-> call.holder,
        published |->
          IF captured(unit, call) # Undefined
          THEN << ExecuteResult(
                    getMimeBundle(runtimeValue(captured(unit, call))).entries) >>
          ELSE <<>>,
        glob |-> call.glob,
        reply |-> [status |-> "ok", ename |-> "", evalue |-> <<>>]]

\* executeRequest once makeAsyncFromCode has returned or thrown.
afterMake(unit, glob) ==
  IF unit.threw THEN failed(unit, unit.error, FALSE, glob)
  ELSE afterCall(unit, callAsyncFunction(unit.asyncFunction, glob))

\* What one executeRequest did: the unit it made, whether it called it, the
\* array the call resolved to, the messages it published, its reply and the
\* global object afterwards.
executeRequest(content, hasExecutor, magicImports, glob) ==
  IF ~ hasExecutor
  THEN [unit |-> NoUnit, called |-> FALSE, resultHolder |-> <<>>,
        published |-> <<>>, glob |-> glob,
        reply |-> [status |-> "error", ename |-> "ExecutorError",
                   evalue |-> <<"Executor not initialized">>]]
  ELSE afterMake(makeAsyncFromCode(content, magicImports), glob)

(***************************************************************************)
(* Completion.  A name, a prefix and a line are sequences of characters.   *)
(* An object is its prototype chain: a sequence of levels, the object      *)
(* itself first; null and undefined are the empty chain.  A level has its  *)
(* own property names in the order of Object.getOwnPropertyNames, whether  *)
(* its properties are enumerable, and whether listing its names throws     *)
(* (a proxy whose ownKeys trap throws).                                    *)
(***************************************************************************)
Level(names, enumerable, throws) ==
  [names |-> names, enumerable |-> enumerable, throws |-> throws]

Range(seq) == { seq[i] : i \in DOMAIN seq }

\* c.toLowerCase(), for the characters of the model.
lowerChar(c) ==
  IF c = "A" THEN "a" ELSE IF c = "B" THEN "b" ELSE IF c = "C" THEN "c"
  ELSE IF c = "D" THEN "d" ELSE IF c = "E" THEN "e" ELSE IF c = "F" THEN "f"
  ELSE IF c = "O" THEN "o" ELSE IF c = "T" THEN "t" ELSE IF c = "U" THEN "u"
  ELSE IF c = "M" THEN "m" ELSE IF c = "S" THEN "s" ELSE c

toLowerCase(name) == [i \in DOMAIN name |-> lowerChar(name[i])]

\* The place of a letter in the alphabet.
letterRank(c) ==
  IF lowerChar(c) = "a" THEN 1 ELSE IF lowerChar(c) = "b" THEN 2
  ELSE IF lowerChar(c) = "c" THEN 3 ELSE IF lowerChar(c) = "d" THEN 4 ELSE 5

\* Lower case before upper case.
caseRank(c) == IF lowerChar(c) = c THEN 0 ELSE 1

\* The order of two names by the alphabet, whatever the case: -1, 0 or 1.
RECURSIVE compareLetters(_, _)
compareLetters(a, b) ==
  IF Len(a) = 0 /\ Len(b) = 0 THEN 0
  ELSE IF Len(a) = 0 THEN -1
  ELSE IF Len(b) = 0 THEN 1
  ELSE IF letterRank(a[1]) < letterRank(b[1]) THEN -1
  ELSE IF letterRank(a[1]) > letterRank(b[1]) THEN 1
  ELSE compareLetters(Tail(a), Tail(b))

\* The order of two names of the same letters by their case: -1, 0 or 1.
RECURSIVE compareCase(_, _)
compareCase(a, b) ==
  IF Len(a) = 0 \/ Len(b) = 0 THEN 0
  ELSE IF caseRank(a[1]) < caseRank(b[1]) THEN -1
  ELSE IF caseRank(a[1]) > caseRank(b[1]) THEN 1
  ELSE compareCase(Tail(a), Tail(b))

\* a.localeCompare(b) for names made of letters: the order of the alphabet
\* first, whatever the case; between names that differ in case only, lower
\* case first.
localeCompare(a, b) ==
  IF compareLetters(a, b) # 0 THEN compareLetters(a, b) ELSE compareCase(a, b)

\* The comparator of the final sort of getAllProperties.
sortsBefore(a, b, prefix) ==
  IF startsWith(a, prefix) /\ ~ startsWith(b, prefix) THEN TRUE
  ELSE IF ~ startsWith(a, prefix) /\ startsWith(b, prefix) THEN FALSE
  ELSE localeCompare(a, b) < 0

\* addMatching(props)
RECURSIVE addMatching(_, _, _)
addMatching(props, matches, prefix) ==
  IF Len(props) = 0 THEN matches
  ELSE addMatching(Tail(props),
                   IF props[1] \notin Range(matches) /\ startsWith(props[1], prefix)
                   THEN Append(matches, props[1]) ELSE matches,
                   prefix)

\* addCaseInsensitive(props)
RECURSIVE addCaseInsensitive(_, _, _)
addCaseInsensitive(props, matches, prefix) ==
  IF Len(props) = 0 THEN matches
  ELSE addCaseInsensitive(
         Tail(props),
         IF /\ props[1] \notin Range(matches)
            /\ startsWith(toLowerCase(props[1]), toLowerCase(prefix))
            /\ ~ startsWith(props[1], prefix)
         THEN Append(matches, props[1]) ELSE matches,
         prefix)

\* The keys that for (const key in current) visits: the enumerable names of
\* the object and of its prototypes, until listing the names of one throws.
RECURSIVE forInKeys(_)
forInKeys(chain) ==
  IF Len(chain) = 0 \/ chain[1].throws THEN <<>>
  ELSE (IF chain[1].enumerable THEN chain[1].names ELSE <<>>)
       \o forInKeys(Tail(chain))

\* The first walk up the prototype chain.
RECURSIVE walkMatching(_, _, _)
walkMatching(chain, matches, prefix) ==
  IF Len(chain) = 0 THEN matches
  ELSE walkMatching(
         Tail(chain),
         IF chain[1].throws THEN matches
         ELSE addMatching(forInKeys(chain),
                          addMatching(chain[1].names, matches, prefix), prefix),
         prefix)

\* The second walk up the prototype chain.
RECURSIVE walkCaseInsensitive(_, _, _)
walkCaseInsensitive(chain, matches, prefix) ==
  IF Len(chain) = 0 THEN matches
  ELSE walkCaseInsensitive(
         Tail(chain),
         IF chain[1].throws THEN matches
         ELSE addCaseInsensitive(chain[1].names, matches, prefix),
         prefix)

\* getAllProperties with the names sorted by localeCompare alone.
getAllPropertiesPlainSort(obj, prefix) ==
  SortSeq(walkCaseInsensitive(obj, walkMatching(obj, <<>>, prefix), prefix),
          LAMBDA a, b : localeCompare(a, b) < 0)

\* getAllProperties(obj, prefix)
getAllProperties(obj, prefix) ==
  SortSeq(walkCaseInsensitive(obj, walkMatching(obj, <<>>, prefix), prefix),
          LAMBDA a, b : sortsBefore(a, b, prefix))

\* The characters at which the expression to complete starts.
stopChars ==
  {" ", "{", "}", "(", ")", "=", "+", "-", "*", "/", "%", "&", "|", "^", "~", "<",
   ">", ",", ":", ";", "!", "?", "@", "#"}

expStopChars == {".", "]"}

\* The position of the last character of a text that is in a set, or 0.
lastIndexIn(text, chars) ==
  IF \E i \in DOMAIN text : text[i] \in chars
  THEN CHOOSE i \in DOMAIN text :
         /\ text[i] \in chars
         /\ \A j \in DOMAIN text : text[j] \in chars => j <= i
  ELSE 0

\* codeLine.substring(codeBegin)
pseudoExpression(codeLine) == substringFrom(codeLine, lastIndexIn(codeLine, stopChars))

\* Whether the pseudo expression has a dot or a closing bracket.
found(codeLine) == lastIndexIn(pseudoExpression(codeLine), expStopChars) > 0

rootObjectStr(codeLine) ==
  IF found(codeLine)
  THEN substring(pseudoExpression(codeLine), 0,
                 lastIndexIn(pseudoExpression(codeLine), expStopChars) - 1)
  ELSE <<>>

toMatch(codeLine) ==
  IF found(codeLine)
  THEN substringFrom(pseudoExpression(codeLine),
                     lastIndexIn(pseudoExpression(codeLine), expStopChars))
  ELSE pseudoExpression(codeLine)

\* cursorStart of completeLine
inLineCursorStart(codeLine) ==
  lastIndexIn(codeLine, stopChars)
  + (IF found(codeLine)
     THEN lastIndexIn(pseudoExpression(codeLine), expStopChars) ELSE 0)

\* new Function('scope', 'with(scope) { return <expression>; }')(scope): the
\* object the expression evaluates to in the scope, or the throw of the
\* Function constructor or of the evaluation.  A scope is the global object
\* (its prototype chain) and the expressions that evaluate in it.
evalFunc(expression, scope) ==
  IF \E e \in scope.evaluates : e[1] = expression
  THEN [does |-> "returns",
        object |-> (CHOOSE e \in scope.evaluates : e[1] = expression)[2]]
  ELSE [does |-> "throws", object |-> <<>>]

\* completeLine without the try/catch around the evaluation of the root.
completeLineUncaught(codeLine, globalScope) ==
  IF rootObjectStr(codeLine) = <<>>
  THEN [does |-> "returns",
        matches |-> getAllProperties(globalScope.object, toMatch(codeLine)),
        cursorStart |-> inLineCursorStart(codeLine), status |-> ""]
  ELSE IF evalFunc(rootObjectStr(codeLine), globalScope).does = "throws"
  THEN [does |-> "throws", matches |-> <<>>,
        cursorStart |-> inLineCursorStart(codeLine), status |-> ""]
  ELSE [does |-> "returns",
        matches |-> getAllProperties(evalFunc(rootObjectStr(codeLine),
                                              globalScope).object,
                                     toMatch(codeLine)),
        cursorStart |-> inLineCursorStart(codeLine), status |-> ""]

\* completeLine(codeLine, globalScope); an absent status is the empty one.
completeLine(codeLine, globalScope) ==
  IF rootObjectStr(codeLine) = <<>>
  THEN [does |-> "returns",
        matches |-> getAllProperties(globalScope.object, toMatch(codeLine)),
        cursorStart |-> inLineCursorStart(codeLine), status |-> ""]
  ELSE IF evalFunc(rootObjectStr(codeLine), globalScope).does = "throws"
  THEN [does |-> "returns", matches |-> <<>>,
        cursorStart |-> inLineCursorStart(codeLine), status |-> "error"]
  ELSE [does |-> "returns",
        matches |-> getAllProperties(evalFunc(rootObjectStr(codeLine),
                                              globalScope).object,
                                     toMatch(codeLine)),
        cursorStart |-> inLineCursorStart(codeLine), status |-> ""]

\* code.split('\n')
split(code) == IF Len(code) = 0 THEN << <<>> >> ELSE Split(code, "\n")

\* The loop of completeRequest that looks for the line the cursor is on,
\* from line i on (counted from 1), lineBegin being the offset of that line.
RECURSIVE findLine(_, _, _, _)
findLine(lines, i, lineBegin, cursorPos) ==
  IF i > Len(lines)
  THEN [lineIndex |-> 1, cursorPosInLine |-> 0, lineBegin |-> lineBegin]
  ELSE IF cursorPos >= lineBegin /\ cursorPos <= lineBegin + Len(lines[i])
  THEN [lineIndex |-> i, cursorPosInLine |-> cursorPos - lineBegin,
        lineBegin |-> lineBegin]
  ELSE findLine(lines, i + 1, lineBegin + Len(lines[i]) + 1, cursorPos)

\* completeRequest once the line is found and completed.
completed(lineRes, at, cursorPos) ==
  IF lineRes.does = "throws"
  THEN [does |-> "throws", matches |-> <<>>, cursorStart |-> 0, cursorEnd |-> 0,
        status |-> ""]
  ELSE [does |-> "returns", matches |-> lineRes.matches,
        cursorStart |-> at.lineBegin + lineRes.cursorStart,
        cursorEnd |-> cursorPos,
        status |-> IF lineRes.status = "" THEN "ok" ELSE lineRes.status]

\* completeRequest once the line is found.
completeAt(lines, at, cursorPos, globalScope) ==
  IF at.cursorPosInLine # Len(lines[at.lineIndex])
  THEN [does |-> "returns", matches |-> <<>>, cursorStart |-> cursorPos,
        cursorEnd |-> cursorPos, status |-> ""]
  ELSE completed(completeLine(lines[at.lineIndex], globalScope), at, cursorPos)

\* completeRequest(code, cursorPos), in the executor's global scope.
completeRequest(code, cursorPos, globalScope) ==
  completeAt(split(code), findLine(split(code), 1, 0, cursorPos), cursorPos,
             globalScope)

(***************************************************************************)
(* isComplete.  The text and the parser's message are sequences of         *)
(* characters.  What parseScript does with the text is given: it returns,  *)
(* or it throws an error with a message.                                   *)
(***************************************************************************)
Parses == [threw |-> FALSE, message |-> <<>>]

Fails(message) == [threw |-> TRUE, message |-> message]

\* The patterns of incomplete code, each the literal parts that .* separates;
\* the patterns ignore case.
incompletePatterns ==
  << << <<"u", "n", "e", "x", "p", "e", "c", "t", "e", "d", " ", "e", "n",
          "d", " ", "o", "f", " ", "i", "n", "p", "u", "t">> >>,
     << <<"u", "n", "t", "e", "r", "m", "i", "n", "a", "t", "e", "d", " ",
          "s", "t", "r", "i", "n", "g">> >>,
     << <<"u", "n", "t", "e", "r", "m", "i", "n", "a", "t", "e", "d", " ",
          "t", "e", "m", "p", "l", "a", "t", "e">> >>,
     << <<"u", "n", "e", "x", "p", "e", "c", "t", "e", "d", " ", "t", "o",
          "k", "e", "n">>,
        <<"e", "o", "f">> >>,
     << <<"e", "x", "p", "e", "c", "t", "e", "d">>,
        <<"b", "u", "t">>,
        <<"e", "n", "d">> >> >>

\* RegExp.prototype.test of such a pattern, on the message from an offset on.
RECURSIVE testFrom(_, _, _)
testFrom(parts, message, from) ==
  \/ Len(parts) = 0
  \/ \E i \in (from + 1)..(Len(message) - Len(parts[1]) + 1) :
       /\ SubSeq(toLowerCase(message), i, i + Len(parts[1]) - 1) = parts[1]
       /\ testFrom(Tail(parts), message, i + Len(parts[1]) - 1)

test(pattern, message) == testFrom(pattern, message, 0)

\* lastLine.match(/^(\s*)/)?.[1] || ''
RECURSIVE currentIndent(_)
currentIndent(lastLine) ==
  IF Len(lastLine) > 0 /\ lastLine[1] \in WhiteSpace
  THEN << lastLine[1] >> \o currentIndent(Tail(lastLine))
  ELSE <<>>

\* /[{([]$/.test(lastLine.trim())
opensBlock(lastLine) ==
  /\ Len(trim(lastLine)) > 0
  /\ trim(lastLine)[Len(trim(lastLine))] \in {"{", "(", "["}

\* The indentation for the next line.
indent(lastLine) ==
  IF opensBlock(lastLine)
  THEN currentIndent(lastLine) \o <<" ", " ">>
  ELSE currentIndent(lastLine)

\* isComplete(code), given what parseScript does with the code.  A result
\* without an indent has the empty one.
isComplete(code, parsed) ==
  IF Len(trim(code)) = 0 THEN [status |-> "complete", indent |-> <<>>]
  ELSE IF ~parsed.threw THEN [status |-> "complete", indent |-> <<>>]
  ELSE IF \E k \in DOMAIN incompletePatterns :
            test(incompletePatterns[k], parsed.message)
  THEN [status |-> "incomplete",
        indent |-> indent(split(code)[Len(split(code))])]
  ELSE [status |-> "invalid", indent |-> <<>>]

(***************************************************************************)
(* Inspection.  The text, the expression and a property name are sequences *)
(* of characters.  A value is what inspection reads of it: its kind, the   *)
(* name of the function or of the constructor, the length of an array, its *)
(* own enumerable keys with the type of each, the text of a function or    *)
(* of a primitive, and whether reading them throws (a toString or an       *)
(* ownKeys trap that throws).  A scope is the values at the property paths of the global     *)
(* object, the paths whose getter throws, and the prototype chain of the   *)
(* global object.                                                          *)
(***************************************************************************)
\* The character U+0060, which a string of the model cannot hold.
Tick == "(tick)"

InspectValue(kind, name, length, keys, source, throws) ==
  [kind |-> kind, name |-> name, length |-> length, keys |-> keys,
   source |-> source, throws |-> throws]

UndefinedValue ==
  InspectValue("undefined", <<>>, <<>>, <<>>, <<"undefined">>, FALSE)

\* The characters that \w does not match, among those of the model.
NonWordChars ==
  {" ", "\n", "\t", ".", "$", "(", ")", "[", "]", "{", "}", "=", "+", "-", "*",
   "/", ",", ";", ":", "'", "\""}

Digits == {"0", "1", "2", "3", "4", "5", "6", "7", "8", "9"}

\* beforeCursor.match(/[\w.$]+$/): the number of characters matched.
RECURSIVE beforeMatch(_)
beforeMatch(beforeCursor) ==
  IF Len(beforeCursor) > 0
     /\ (beforeCursor[Len(beforeCursor)] \notin NonWordChars
         \/ beforeCursor[Len(beforeCursor)] \in {".", "$"})
  THEN 1 + beforeMatch(SubSeq(beforeCursor, 1, Len(beforeCursor) - 1))
  ELSE 0

\* afterCursor.match(/^[\w]*/): the number of characters matched.
RECURSIVE afterMatch(_)
afterMatch(afterCursor) ==
  IF Len(afterCursor) > 0 /\ afterCursor[1] \notin NonWordChars
  THEN 1 + afterMatch(Tail(afterCursor))
  ELSE 0

\* The offset String.prototype.substring uses for an argument.
clamp(offset, code) ==
  IF offset < 0 THEN 0 ELSE IF offset > Len(code) THEN Len(code) ELSE offset

\* extractExpressionAtCursor(code, cursorPos); null is the empty text, which
\* inspect treats alike.
extractExpressionAtCursor(code, cursorPos) ==
  IF beforeMatch(substring(code, 0, clamp(cursorPos, code))) = 0 THEN <<>>
  ELSE SubSeq(code,
              clamp(cursorPos, code)
                - beforeMatch(substring(code, 0, clamp(cursorPos, code))) + 1,
              clamp(cursorPos, code)
                + afterMatch(substringFrom(code, clamp(cursorPos, code))))

\* getTypeString(value)
getTypeString(value) ==
  IF value.kind = "null" THEN <<"null">>
  ELSE IF value.kind = "undefined" THEN <<"undefined">>
  ELSE IF value.kind = "array" THEN <<"Array(">> \o value.length \o <<")">>
  ELSE IF value.kind = "function"
  THEN <<"function ">>
       \o (IF value.name = <<>> THEN <<"anonymous">> ELSE value.name)
       \o <<"()">>
  ELSE IF value.kind = "object"
  THEN (IF value.name = <<>> THEN <<"Object">> ELSE value.name)
  ELSE << value.kind >>

\* The properties buildInspectionData lists at most.
maxListed == 20

\* The lines of the properties of an object, from the k-th key on.
RECURSIVE propertyLines(_, _)
propertyLines(keys, k) ==
  IF k > Len(keys) \/ k > maxListed THEN <<>>
  ELSE << <<"- ", Tick>> \o keys[k][1] \o <<Tick, ": ">> \o keys[k][2] >>
       \o propertyLines(keys, k + 1)

\* The lines buildInspectionData pushes after the type of the value.
previewLines(value, detailLevel) ==
  IF value.kind = "function"
  THEN << <<"**", "Signature:", "**">>, <<Tick, Tick, Tick, "javascript">>,
          value.source, <<Tick, Tick, Tick>> >>
       \o (IF detailLevel > 0
           THEN << <<>>, <<"**", "Source:", "**">>,
                   <<Tick, Tick, Tick, "javascript">>, value.source,
                   <<Tick, Tick, Tick>> >>
           ELSE <<>>)
  ELSE IF value.kind \in {"object", "array"}
  THEN (IF Len(value.keys) > 0
        THEN << <<"**", "Properties:", "**">> >> \o propertyLines(value.keys, 1)
             \o (IF Len(value.keys) > maxListed
                 THEN << <<"- ... and ", "n - 20", " more">> >> ELSE <<>>)
        ELSE <<>>)
  ELSE << <<"**", "Value:", "**", " ", Tick>> \o value.source \o <<Tick>> >>

\* text.replace(/\*\*/g, '')
withoutStars(text) == SelectSeq(text, LAMBDA lexeme : lexeme # "**")

\* The bundle of buildInspectionData, given its lines.
inspectionBundle(lines) ==
  { <<"text/plain", withoutStars(join(lines, <<"\n">>))>>,
    <<"text/markdown", join(lines, <<"\n">>)>> }

\* buildInspectionData(expression, value, detailLevel): the bundle, or a throw.
buildInspectionData(expression, value, detailLevel) ==
  IF value.throws THEN [threw |-> TRUE, data |-> {}]
  ELSE [threw |-> FALSE,
        data |-> inspectionBundle(
                   << <<"**">> \o expression \o <<"**", ": ", Tick>>
                      \o getTypeString(value) \o <<Tick>>, <<>> >>
                   \o previewLines(value, detailLevel))]

NotFound == [does |-> "returns", found |-> FALSE, data |-> {}, metadata |-> {}]

Found(data) == [does |-> "returns", found |-> TRUE, data |-> data, metadata |-> {}]

\* The table of getBuiltinDocumentation.
builtins ==
  { << <<"D", "a", "t", "e">>, <<"The Date object represents a single moment in time.">> >>,
    << <<"S", "e", "t">>, <<"The Set object lets you store unique values of any type.">> >>,
    << <<"M", "a", "t", "h">>,
       <<"The Math object provides mathematical constants and functions.">> >> }

\* getBuiltinDocumentation(expression); null is the empty text.
getBuiltinDocumentation(expression) ==
  IF \E e \in builtins : e[1] = expression
  THEN (CHOOSE e \in builtins : e[1] = expression)[2]
  ELSE <<>>

\* Whether a scope has a value at a property path of the global object.
hasProp(scope, path) == \E e \in scope.tree : e[1] = path

\* The value at a property path; the global object at the empty path.
valueAt(scope, path) ==
  IF path = <<>> THEN InspectValue("object", <<"Window">>, <<>>, <<>>, <<>>, FALSE)
  ELSE (CHOOSE e \in scope.tree : e[1] = path)[2]

\* The loop of inspectAtRuntime from the k-th part on: the path of the value
\* found, or that the walk ended without one.
RECURSIVE walkParts(_, _, _)
walkParts(scope, parts, k) ==
  IF k > Len(parts) THEN [found |-> TRUE, threw |-> FALSE]
  ELSE IF valueAt(scope, SubSeq(parts, 1, k - 1)).kind \in {"null", "undefined"}
  THEN [found |-> FALSE, threw |-> FALSE]
  ELSE IF valueAt(scope, SubSeq(parts, 1, k - 1)).kind
            \in {"number", "string", "boolean"}
  THEN [found |-> FALSE, threw |-> TRUE]
  ELSE IF ~hasProp(scope, SubSeq(parts, 1, k))
  THEN [found |-> FALSE, threw |-> FALSE]
  ELSE IF SubSeq(parts, 1, k) \in scope.throwing
  THEN [found |-> FALSE, threw |-> TRUE]
  ELSE walkParts(scope, parts, k + 1)

\* The documentation inspectAtRuntime appends to a bundle.
withDoc(data, doc) ==
  IF doc = <<>> THEN data
  ELSE { IF e[1] = "text/markdown"
         THEN <<e[1], e[2] \o <<"\n\n---\n\n">> \o doc>>
         ELSE <<e[1], e[2] \o <<"\n\nDoc: ">> \o doc>> : e \in data }

\* inspectAtRuntime once the value is found.
describeAtRuntime(expression, built) ==
  IF built.threw THEN NotFound
  ELSE Found(withDoc(built.data, getBuiltinDocumentation(expression)))

\* inspectAtRuntime(expression, detailLevel)
inspectAtRuntime(expression, detailLevel, scope) ==
  IF ~walkParts(scope, Split(expression, "."), 1).found THEN NotFound
  ELSE describeAtRuntime(
         expression,
         buildInspectionData(expression,
                             valueAt(scope, Split(expression, ".")),
                             detailLevel))

\* The number of positions up to n at which two texts differ.
RECURSIVE differences(_, _, _)
differences(a, b, n) ==
  IF n = 0 THEN 0
  ELSE differences(a, b, n - 1)
       + (IF n <= Len(a) /\ n <= Len(b) /\ a[n] = b[n] THEN 0 ELSE 1)

\* isSimilar(a, b)
isSimilar(a, b) ==
  /\ Len(a) - Len(b) <= 2
  /\ Len(b) - Len(a) <= 2
  /\ differences(a, b, IF Len(a) > Len(b) THEN Len(a) ELSE Len(b)) <= 2

\* String.prototype.includes
includes(text, part) ==
  \E i \in 0..(Len(text) - Len(part)) : SubSeq(text, i + 1, i + Len(part)) = part

\* The suggestions findSimilarNames may hold.
maxSuggestions == 5

\* The loop of findSimilarNames over the properties of the global scope.
RECURSIVE similarAmong(_, _, _)
similarAmong(globalProps, lowerExpr, suggestions) ==
  IF Len(globalProps) = 0 \/ Len(suggestions) >= maxSuggestions THEN suggestions
  ELSE similarAmong(
         Tail(globalProps), lowerExpr,
         IF \/ includes(toLowerCase(globalProps[1]), lowerExpr)
            \/ includes(lowerExpr, toLowerCase(globalProps[1]))
            \/ isSimilar(lowerExpr, toLowerCase(globalProps[1]))
         THEN Append(suggestions, globalProps[1]) ELSE suggestions)

\* findSimilarNames(expression)
findSimilarNames(expression, scope) ==
  similarAmong(getAllProperties(scope.object, <<>>), toLowerCase(expression),
               <<>>)

\* The bundle of suggestions of inspectBuiltin.
RECURSIVE suggestionItems(_)
suggestionItems(suggestions) ==
  IF Len(suggestions) = 0 THEN <<>>
  ELSE <<"- ", Tick>> \o suggestions[1] \o <<Tick>>
       \o (IF Len(suggestions) > 1 THEN <<"\n">> ELSE <<>>)
       \o suggestionItems(Tail(suggestions))

suggestionBundle(expression, suggestions) ==
  { <<"text/plain",
      <<"'">> \o expression \o <<"' not found. Did you mean: ">>
      \o join(suggestions, <<", ">>) \o <<"?">> >>,
    <<"text/markdown",
      <<Tick>> \o expression \o <<Tick, " not found.\n\n", "**",
                                   "Did you mean:", "**", "\n">>
      \o suggestionItems(suggestions)>> }

\* inspectBuiltin after the lookup at runtime found nothing and the table has
\* no documentation.
suggest(expression, suggestions) ==
  IF Len(suggestions) > 0 THEN Found(suggestionBundle(expression, suggestions))
  ELSE NotFound

\* inspectBuiltin with the suggestions before the table.
inspectBuiltinSuggestFirst(expression, detailLevel, scope) ==
  IF inspectAtRuntime(expression, detailLevel, scope).found
  THEN inspectAtRuntime(expression, detailLevel, scope)
  ELSE IF Len(findSimilarNames(expression, scope)) > 0
  THEN Found(suggestionBundle(expression, findSimilarNames(expression, scope)))
  ELSE IF getBuiltinDocumentation(expression) # <<>>
  THEN Found({ <<"text/plain",
                 expression \o <<": ">> \o getBuiltinDocumentation(expression)>>,
               <<"text/markdown",
                 <<"**">> \o expression \o <<"**", "\n\n">>
                 \o getBuiltinDocumentation(expression)>> })
  ELSE NotFound

\* inspectBuiltin whose documentation has no markdown.
inspectBuiltinPlainDoc(expression, detailLevel, scope) ==
  IF inspectAtRuntime(expression, detailLevel, scope).found
  THEN inspectAtRuntime(expression, detailLevel, scope)
  ELSE IF getBuiltinDocumentation(expression) # <<>>
  THEN Found({ <<"text/plain",
                 expression \o <<": ">> \o getBuiltinDocumentation(expression)>> })
  ELSE suggest(expression, findSimilarNames(expression, scope))

\* inspectBuiltin(expression, detailLevel)
inspectBuiltin(expression, detailLevel, scope) ==
  IF inspectAtRuntime(expression, detailLevel, scope).found
  THEN inspectAtRuntime(expression, detailLevel, scope)
  ELSE IF getBuiltinDocumentation(expression) # <<>>
  THEN Found({ <<"text/plain",
                 expression \o <<": ">> \o getBuiltinDocumentation(expression)>>,
               <<"text/markdown",
                 <<"**">> \o expression \o <<"**", "\n\n">>
                 \o getBuiltinDocumentation(expression)>> })
  ELSE suggest(expression, findSimilarNames(expression, scope))

\* The reserved words among the names of the model.
ReservedWords == { <<"c", "l", "a", "s", "s">>, <<"n", "e", "w">> }

\* Whether the Function constructor rejects the text
\* 'with(scope) { return <expression>; }', the expression being made of
\* word characters, dots and dollar signs.
syntaxError(parts) ==
  \/ \E k \in DOMAIN parts : parts[k] = <<>> \/ parts[k][1] \in Digits
  \/ parts[1] \in ReservedWords

\* The member accesses of the expression from the k-th part on, the value so
\* far being at a path or undefined (a property that is missing).
RECURSIVE evalMembers(_, _, _, _)
evalMembers(scope, parts, k, defined) ==
  IF k > Len(parts)
  THEN [threw |-> FALSE,
        value |-> IF defined THEN valueAt(scope, parts) ELSE UndefinedValue]
  ELSE IF ~defined
          \/ valueAt(scope, SubSeq(parts, 1, k - 1)).kind \in {"null", "undefined"}
  THEN [threw |-> TRUE, value |-> UndefinedValue]
  ELSE IF SubSeq(parts, 1, k) \in scope.throwing
  THEN [threw |-> TRUE, value |-> UndefinedValue]
  ELSE evalMembers(scope, parts, k + 1, hasProp(scope, SubSeq(parts, 1, k)))

\* evalFunc(this.globalScope) of inspect: the value of the expression, or a
\* throw (of the Function constructor, a ReferenceError, a TypeError or the
\* throw of a getter).
evalInScope(scope, parts) ==
  IF syntaxError(parts) \/ ~hasProp(scope, << parts[1] >>)
  THEN [threw |-> TRUE, value |-> UndefinedValue]
  ELSE evalMembers(scope, parts, 1, TRUE)

\* inspect once the expression is evaluated and described.
inspected(built, expression, detailLevel, scope) ==
  IF built.threw THEN inspectBuiltin(expression, detailLevel, scope)
  ELSE Found(built.data)

\* inspect once the expression is evaluated.
inspectValue(evaluated, expression, detailLevel, scope) ==
  IF evaluated.threw THEN inspectBuiltin(expression, detailLevel, scope)
  ELSE inspected(buildInspectionData(expression, evaluated.value, detailLevel),
                 expression, detailLevel, scope)

\* inspect once the expression is extracted.
inspectExpression(expression, detailLevel, scope) ==
  IF expression = <<>> THEN NotFound
  ELSE inspectValue(evalInScope(scope, Split(expression, ".")), expression,
                    detailLevel, scope)

\* inspect(code, cursorPos, detailLevel)
inspect(code, cursorPos, detailLevel, scope) ==
  inspectExpression(extractExpressionAtCursor(code, cursorPos), detailLevel,
                    scope)

\* JavaScriptKernel.inspectRequest, the kernel having an executor or not: the
\* found, data and metadata of the reply.
inspectRequest(hasExecutor, code, cursorPos, detailLevel, scope) ==
  IF ~hasExecutor THEN NotFound
  ELSE inspect(code, cursorPos, detailLevel, scope)

(***************************************************************************)
(* cleanStackTrace.  A stack is a sequence of characters.                  *)
(***************************************************************************)
\* What a line of the implementation mentions.
internals == { <<"m", "a", "k", "e", "A", "s", "y", "n", "c", "F", "r", "o", "m", "C", "o", "d", "e">>, <<"n", "e", "w", " ", "F", "u", "n", "c", "t", "i", "o", "n">>, <<"a", "s", "y", "n", "c", "F", "u", "n", "c", "t", "i", "o", "n">> }

\* Whether the loop of cleanStackTrace stops at a line.
stopsAt(line) == \E internal \in internals : includes(line, internal)

\* The loop of cleanStackTrace, which keeps every line that is not internal.
RECURSIVE usedLinesSkipping(_)
usedLinesSkipping(errStackLines) ==
  IF Len(errStackLines) = 0 THEN <<>>
  ELSE IF stopsAt(errStackLines[1]) THEN usedLinesSkipping(Tail(errStackLines))
  ELSE << errStackLines[1] >> \o usedLinesSkipping(Tail(errStackLines))

\* The loop of cleanStackTrace over the lines of the stack.
RECURSIVE usedLines(_)
usedLines(errStackLines) ==
  IF Len(errStackLines) = 0 \/ stopsAt(errStackLines[1]) THEN <<>>
  ELSE << errStackLines[1] >> \o usedLines(Tail(errStackLines))

\* cleanStackTrace(error), given error.stack (the empty text when the error
\* has none).
cleanStackTrace(stack) == join(usedLines(split(stack)), <<"\n">>)

(***************************************************************************)
(* Destructuring patterns as the parser delivers them.  An array pattern   *)
(* lists its elements, null for a hole; an element with a default is an    *)
(* AssignmentPattern around the target, a rest element a RestElement       *)
(* around its argument.  A rest element of an object pattern sits among    *)
(* the properties and has no key.                                          *)
(***************************************************************************)
ArrayPattern(elements) ==
  [type |-> "ArrayPattern", name |-> "undefined", properties |-> <<>>,
   elements |-> elements]

\* The null the parser puts at a hole of an array pattern.
Hole == [type |-> "null", name |-> "undefined", properties |-> <<>>, elements |-> <<>>]

AssignmentPattern(left) ==
  [type |-> "AssignmentPattern", name |-> "undefined", properties |-> <<>>,
   elements |-> <<>>, left |-> left]

RestElement(argument) ==
  [type |-> "RestElement", name |-> "undefined", properties |-> <<>>,
   elements |-> <<>>, argument |-> argument]

\* A property of an object pattern has a key; a rest element has none.
hasKey(prop) == "key" \in DOMAIN prop

\* The properties the export pass reads the key of.
keyedProperties(node) ==
  IF node.type = "VariableDeclaration"
  THEN Flatten([i \in DOMAIN node.declarations |->
                  IF node.declarations[i].id.type = "ObjectPattern"
                  THEN node.declarations[i].id.properties
                  ELSE <<>>])
  ELSE <<>>

\* addToGlobalScope(ast) with its failure: prop.key.name on a property
\* without a key is a TypeError, which leaves the pass.
addToGlobalScopeOutcome(ast) ==
  IF \E i \in DOMAIN ast.body :
       \E j \in DOMAIN keyedProperties(ast.body[i]) :
         ~hasKey(keyedProperties(ast.body[i])[j])
  THEN Throws("TypeError",
              <<"Cannot read properties of undefined (reading 'name')">>)
  ELSE ReturnsString(addToGlobalScope(ast))

(***************************************************************************)
(* The kernel as a state machine.                                          *)
(***************************************************************************)
VARIABLES
  content,      \* the text of the request being written, and its parse
  globalThis,   \* the global object the rewritten code reads and exports to
  config,       \* the executor's magicImports configuration
  executor,     \* whether _initIFrame has created the executor
  served,       \* the last request served and what it produced
  nreq,         \* the number of requests served
  source,       \* the last module specifier resolved
  resolved,     \* what the module-resolution policy made of it
  args,         \* the arguments of the last call of a method of the executor
  result        \* what that call returned, or its throw

vars ==
  <<content, globalThis, config, executor, served, nreq, source, resolved,
    args, result>>

NoImports == [threw |-> FALSE, imports |-> <<>>]

NoServed ==
  [op |-> "none", content |-> EmptyContent, hadExecutor |-> FALSE,
   unit |-> NoUnit, called |-> FALSE,
   resultHolder |-> <<>>, published |-> <<>>,
   reply |-> [status |-> "", ename |-> "", evalue |-> <<>>],
   extracted |-> NoImports, before |-> NoBindings, configBefore |-> ExecutorConfig]

Init ==
  /\ content = EmptyContent
  /\ globalThis = NoBindings
  /\ config = ExecutorConfig
  /\ executor = FALSE
  /\ served = NoServed
  /\ nreq = 0
  /\ source = <<>>
  /\ resolved = <<>>
  /\ args = <<>>
  /\ result = Absent

\* The names the statements of the request being written declare.
Declared(c) == UNION { Declares(c.body[i]) : i \in DOMAIN c.body }

\* The front end adds a statement to the request it is about to send.
Edit(stmt) ==
  /\ nreq < MaxRequests
  /\ Len(content.body) < MaxStmts
  /\ Declares(stmt.node) \cap Declared(content) = {}
  /\ content' = AppendStatement(content, stmt)
  /\ served' = NoServed
  /\ UNCHANGED <<globalThis, config, executor, nreq, source, resolved, args, result>>

\* _initIFrame after the iframe has loaded: the executor exists.
IFrameLoaded ==
  /\ ~ executor
  /\ executor' = TRUE
  /\ UNCHANGED <<content, globalThis, config, served, nreq, source, resolved, args, result>>

\* The state after an executeRequest that did r.
Serve(r) ==
  /\ served' = [NoServed EXCEPT !.op = "execute", !.content = content,
                  !.hadExecutor = executor, !.unit = r.unit, !.called = r.called,
                  !.resultHolder = r.resultHolder,
                  !.published = r.published, !.reply = r.reply,
                  !.before = globalThis, !.configBefore = config]
  /\ globalThis' = r.glob

\* executeRequest(content)
ExecuteRequest ==
  /\ nreq < MaxRequests
  /\ Serve(executeRequest(content, executor, config, globalThis))
  /\ content' = EmptyContent
  /\ nreq' = nreq + 1
  /\ UNCHANGED <<config, executor, source, resolved, args, result>>

\* extractImports(code), called on the executor with the text being written.
ExtractImports ==
  /\ nreq < MaxRequests
  /\ executor
  /\ served' = [NoServed EXCEPT !.op = "extractImports", !.content = content,
                  !.hadExecutor = executor,
                  !.extracted = extractImports(content, config),
                  !.before = globalThis, !.configBefore = config]
  /\ nreq' = nreq + 1
  /\ UNCHANGED <<content, globalThis, config, executor, source, resolved, args, result>>

Next ==
  \/ \E stmt \in Statements : Edit(stmt)
  \/ IFrameLoaded
  \/ ExecuteRequest
  \/ ExtractImports

Spec == Init /\ [][Next]_vars

(***************************************************************************)
(* One cell on its own, under SpecCell: the kernel receives a text of up   *)
(* to MaxStmts statements, with or without an executor, with or without    *)
(* obj among the properties of the global object, and serves it.           *)
(***************************************************************************)
\* The texts of up to n statements, no name declared twice.
RECURSIVE CellsOf(_)
CellsOf(n) ==
  IF n = 0 THEN { EmptyContent }
  ELSE CellsOf(n - 1)
       \cup { AppendStatement(c, stmt) :
                <<c, stmt>> \in { p \in CellsOf(n - 1) \X Statements :
                                    /\ Len(p[1].body) = n - 1
                                    /\ Declares(p[2].node) \cap Declared(p[1]) = {} } }

InitCell ==
  /\ content \in CellsOf(MaxStmts)
  /\ globalThis \in { NoBindings, [NoBindings EXCEPT !["obj"] = <<"{a:1,b:2}">>] }
  /\ config = ExecutorConfig
  /\ executor \in BOOLEAN
  /\ served = NoServed
  /\ nreq = 0
  /\ source = <<>>
  /\ resolved = <<>>
  /\ args = <<>>
  /\ result = Absent

NextCell == ExecuteRequest

SpecCell == InitCell /\ [][NextCell]_vars

(***************************************************************************)
(* The module-resolution policy on its own: an executor constructed with   *)
(* any configuration resolves any specifier.                               *)
(***************************************************************************)
BaseUrls ==
  { DefaultBaseUrl, <<"https://", "cdn.jsdelivr.net">>,
    <<"https://", "esm.sh", "/">>, <<>> }

Configs ==
  [enabled : BOOLEAN, baseUrl : BaseUrls, enableAutoNpm : BOOLEAN]

SpecifierStarts ==
  { <<>>, <<"http://">>, <<"https://">>, <<"data:">>, <<"file://">>, <<"blob:">>,
    <<"npm/">>, <<"gh/">>, <<"./">> }

SpecifierEnds ==
  { <<>>, <<"/">>, <<".js">>, <<".mjs">>, <<".cjs">>, <<".wasm">>, <<"+esm">>,
    <<"/", "+esm">>, <<".json">> }

Specifiers ==
  { start \o body \o end :
      start \in SpecifierStarts, body \in { Lodash, <<"d3", "@", "7">> },
      end \in SpecifierEnds }

InitResolve ==
  /\ content = EmptyContent
  /\ globalThis = NoBindings
  /\ config \in Configs
  /\ executor = TRUE
  /\ served = NoServed
  /\ nreq = 0
  /\ source = <<>>
  /\ resolved = <<>>
  /\ args = <<>>
  /\ result = Absent

\* transformImportSource(source)
Resolve(specifier) ==
  /\ source' = specifier
  /\ resolved' = transformImportSource(specifier, config)
  /\ UNCHANGED <<content, globalThis, config, executor, served, nreq, args, result>>

NextResolve == \E specifier \in Specifiers : Resolve(specifier)

SpecResolve == InitResolve /\ [][NextResolve]_vars

(***************************************************************************)
(* getMimeBundle on its own: the executor presents any runtime value.      *)
(***************************************************************************)
Boom == Throws("Error", <<"boom">>)

HtmlText == <<"<", "b", ">", "x", "<", "/b", ">">>

PrimitiveValues ==
  { Value("null", <<"null">>), Value("undefined", <<"undefined">>),
    Value("string", <<>>), Value("string", <<"hi">>), Value("string", HtmlText),
    Value("string", <<" ">> \o HtmlText \o <<"\n">>),
    Value("number", <<"0">>), Value("number", <<"NaN">>),
    Value("boolean", <<"false">>), Value("boolean", <<"true">>),
    Value("symbol", <<"Symbol(s)">>), Value("bigint", <<"10">>),
    [Value("function", <<"function", "f", "(", ")", "{", "return", "1", "<", "2",
                         "}">>) EXCEPT !.name = "f"],
    Value("function", <<"(", ")", "=>", "'", "&", "'">>),
    [Value("function", <<"function", "g", "(", ")", "{", "}">>)
       EXCEPT !.name = "g", !.String = Boom],
    [Value("function", <<"class", "K", "{", "}">>)
       EXCEPT !.name = "K",
              !.methods["_toMime"] =
                ReturnsObject({ <<"text/plain", <<"p">> >>,
                                <<"text/html", <<"<", "b", ">", "x", "<", "/b", ">">> >> })] }

\* An object of a built-in class.
Builtin(kind, text) == [Value(kind, text) EXCEPT !.name = kind]

BuiltinValues ==
  { [Builtin("Error", <<"new Error('e')">>)
       EXCEPT !.stack = <<"Error: e", "\n", "at <anonymous>">>,
              !.String = ReturnsString(<<"Error: e">>)],
    [Builtin("Error", <<"new Error('e')">>)
       EXCEPT !.String = ReturnsString(<<"Error: e">>)],
    [Builtin("Error", <<"new Error('e')">>) EXCEPT !.String = Boom],
    [Builtin("Date", <<"new Date(0)">>)
       EXCEPT !.toISOString = ReturnsString(<<"1970-01-01T00:00:00.000Z">>)],
    [Builtin("Date", <<"new Date(NaN)">>)
       EXCEPT !.String = ReturnsString(<<"Invalid Date">>),
              !.toISOString = Throws("RangeError", <<"Invalid time value">>)],
    [Builtin("Date", <<"new Date(0)">>)
       EXCEPT !.toISOString = ReturnsString(<<"1970-01-01T00:00:00.000Z">>),
              !.methods["_toHtml"] = ReturnsString(<<"<time>">>)],
    Builtin("RegExp", <<"/a/g">>),
    [Builtin("Map", <<"new Map([['k', 1]])">>)
       EXCEPT !.length = "1",
              !.items = << Item("string", <<"k">>), Item("number", <<"1">>) >>],
    [Builtin("Map", <<"new Map([['k', o]])">>)
       EXCEPT !.length = "1",
              !.items = << Item("string", <<"k">>),
                           [Item("object", <<"o">>) EXCEPT !.String = Boom] >>],
    [Builtin("Set", <<"new Set([1, 2])">>)
       EXCEPT !.length = "2",
              !.items = << Item("number", <<"1">>), Item("number", <<"2">>) >>],
    [Builtin("Set", <<"new Set([o])">>)
       EXCEPT !.length = "1",
              !.items = << [Item("object", <<"o">>) EXCEPT !.String = Boom] >>],
    [Builtin("HTMLElement", <<"<div>", "</div>">>) EXCEPT !.name = "HTMLDivElement"],
    [Builtin("HTMLCanvasElement", <<"<canvas>", "</canvas>">>)
       EXCEPT !.width = "300", !.height = "150",
              !.toDataURL = ReturnsString(<<"iVBORw0KGgo=">>)],
    [Builtin("HTMLCanvasElement", <<"<canvas>", "</canvas>">>)
       EXCEPT !.width = "300", !.height = "150",
              !.toDataURL = Throws("SecurityError", <<"tainted canvas">>)],
    Builtin("Array", <<"[]">>),
    [Builtin("Array", <<"[null, undefined, 'a', [1], {}, 1]">>)
       EXCEPT !.length = "6",
              !.items = << Item("null", <<"null">>), Item("undefined", <<"undefined">>),
                           Item("string", <<"a">>), Item("array", <<"1">>),
                           Item("object", <<"{}">>), Item("number", <<"1">>) >>],
    [Builtin("Array", <<"Array(11).fill(1)">>)
       EXCEPT !.length = "11",
              !.items = [i \in 1..(maxItems + 1) |-> Item("number", <<"1">>)]],
    [Builtin("Array", <<"[g]">>)
       EXCEPT !.length = "1",
              !.items = << [Item("function", <<"g">>) EXCEPT !.String = Boom] >>],
    [Builtin("TypedArray", <<"new Uint8Array(4)">>)
       EXCEPT !.name = "Uint8Array", !.length = "4"],
    Builtin("Promise", <<"Promise.resolve(1)">>) }

\* A generic object with the given properties.
Object(text, name, props) ==
  [Value("Object", text) EXCEPT !.name = name, !.props = props, !.length = "undefined"]

PlainBundle == { <<"text/plain", <<"p">> >>, <<"text/html", HtmlText>> }

HtmlOnlyBundle == { <<"text/html", HtmlText>> }

GenericObjects ==
  { Object(<<"{}">>, "Object", <<>>),
    Object(<<"{a:1,b:2}">>, "Object",
           << Prop("a", Item("number", <<"1">>)), Prop("b", Item("number", <<"2">>)) >>),
    Object(<<"new Point(1, 2)">>, "Point",
           << Prop("x", Item("number", <<"1">>)), Prop("y", Item("string", <<"2">>)) >>),
    Object(<<"Object.create(null)">>, "", << Prop("f", Item("function", <<"f">>)) >>),
    Object(<<"{a, b, c, d, e, f}">>, "Object",
           [i \in 1..(maxProps + 1) |-> Prop("k", Item("null", <<"null">>))]),
    [Object(<<"o">>, "Object", << Prop("self", Item("object", <<"o">>)) >>)
       EXCEPT !.cyclic = TRUE],
    [Object(<<"n">>, "Node",
            << Prop("next", Item("object", <<"n">>)),
               Prop("s", [Item("symbol", <<"s">>) EXCEPT !.String = Boom]) >>)
       EXCEPT !.cyclic = TRUE],
    [Object(<<"new Proxy({}, {ownKeys() { throw e }})">>, "Object", <<>>)
       EXCEPT !.ownKeys = Boom],
    [Object(<<"{data: null}">>, "Object", << Prop("data", Item("null", <<"null">>)) >>)
       EXCEPT !.data = ReturnsNull],
    [Object(<<"{data: {}}">>, "Object", << Prop("data", Item("object", <<"{}">>)) >>)
       EXCEPT !.data = ReturnsObject({})],
    [Object(<<"{data: {'text/plain': 'p', 'text/html': '<b>x</b>'}}">>, "Object",
            << Prop("data", Item("object", <<"{}">>)) >>)
       EXCEPT !.data = ReturnsObject(PlainBundle)],
    [Object(<<"{data: 'd'}">>, "Object", << Prop("data", Item("string", <<"d">>)) >>)
       EXCEPT !.data = ReturnsString(<<"d">>)] }

\* What a presentation method of an object of the model does.
ProbeOutcomes == { Absent, Boom, ReturnsString(<<"s">>) }

ToMimeOutcomes ==
  { Absent, Boom, ReturnsNull, ReturnsString(<<"s">>),
    ReturnsObject(PlainBundle), ReturnsObject(HtmlOnlyBundle) }

\* The presentation methods of an object, by what each of them does.
Methods(mime, html, svg, png, jpeg, markdown, latex, inspectHook) ==
  [m \in MethodNames |->
     IF m = "_toMime" THEN mime
     ELSE IF m = "_toHtml" THEN html
     ELSE IF m = "_toSvg" THEN svg
     ELSE IF m = "_toPng" THEN png
     ELSE IF m = "_toJpeg" THEN jpeg
     ELSE IF m = "_toMarkdown" THEN markdown
     ELSE IF m = "_toLatex" THEN latex
     ELSE inspectHook]

\* The objects that carry presentation methods.
HookedObjects ==
  { [Object(<<"h">>, "Object", <<>>)
       EXCEPT !.methods = Methods(mime, html, svg, png, jpeg, markdown, latex, inspectHook),
              !.String = str] :
      mime \in ToMimeOutcomes, html \in ProbeOutcomes \cup { ReturnsNull },
      svg \in ProbeOutcomes, png \in ProbeOutcomes, jpeg \in ProbeOutcomes,
      markdown \in ProbeOutcomes, latex \in ProbeOutcomes, inspectHook \in ProbeOutcomes,
      str \in { ReturnsString(<<"[object Object]">>), Boom } }

RuntimeValues == PrimitiveValues \cup BuiltinValues \cup GenericObjects \cup HookedObjects

\* The value to present is at hand; getMimeBundle has not been called yet.
InitPresent ==
  /\ content = EmptyContent
  /\ globalThis = NoBindings
  /\ config = ExecutorConfig
  /\ executor = TRUE
  /\ served = NoServed
  /\ nreq = 0
  /\ source = <<>>
  /\ resolved = <<>>
  /\ args \in { << value >> : value \in RuntimeValues }
  /\ result = Absent

\* getMimeBundle(value)
GetMimeBundle ==
  /\ result = Absent
  /\ result' = getMimeBundle(args[1])
  /\ UNCHANGED <<content, globalThis, config, executor, served, nreq, source,
                 resolved, args>>

NextPresent == GetMimeBundle

SpecPresent == InitPresent /\ [][NextPresent]_vars

(***************************************************************************)
(* getAllProperties on its own: any object, any prefix.                    *)
(***************************************************************************)
abc == <<"a", "b", "c">>

abd == <<"a", "b", "d">>

Abc == <<"A", "b", "c">>

OwnNames ==
  { <<>>, << abc, abd, Abc >>, << Abc, abd, abc >>, << <<"a", "b">> >>,
    << <<"a", "B">>, <<"b">> >>, << abd, <<"A", "B">> >>,
    << <<"A", "B", "D">>, abc >>, << <<"B">>, <<"a">> >> }

Levels ==
  { Level(names, enumerable, throws) :
      names \in OwnNames, enumerable \in BOOLEAN, throws \in BOOLEAN }

\* null, the objects without a prototype and the objects with one.
Chains == { <<>> } \cup { << l >> : l \in Levels } \cup { << l, m >> : l, m \in Levels }

Prefixes ==
  { <<>>, <<"a">>, <<"a", "b">>, <<"A", "B">>, <<"A", "b">>, <<"b">>, <<"d">> }

InitProperties ==
  /\ content = EmptyContent
  /\ globalThis = NoBindings
  /\ config = ExecutorConfig
  /\ executor = TRUE
  /\ served = NoServed
  /\ nreq = 0
  /\ source = <<>>
  /\ resolved = <<>>
  /\ args \in { << obj, prefix >> : obj \in Chains, prefix \in Prefixes }
  /\ result = Absent

\* getAllProperties(obj, prefix)
GetAllProperties ==
  /\ result = Absent
  /\ result' = [does |-> "returns", matches |-> getAllProperties(args[1], args[2])]
  /\ UNCHANGED <<content, globalThis, config, executor, served, nreq, source,
                 resolved, args>>

NextProperties == GetAllProperties

SpecProperties == InitProperties /\ [][NextProperties]_vars

(***************************************************************************)
(* completeRequest on its own: any text, any cursor offset.                *)
(***************************************************************************)
\* The iframe's window: the globals ab (an object with the own properties
\* abc, abd and Abc, abc being an object too), Ad and d (null).
GlobalScope ==
  [object |-> << Level(<< <<"a", "b">>, <<"A", "d">>, <<"d">> >>, TRUE, FALSE),
                 Level(<< <<"a", "a">>, <<"b">> >>, FALSE, FALSE) >>,
   evaluates |->
     { << <<"a", "b">>, << Level(<< abc, abd, Abc >>, TRUE, FALSE),
                           Level(<< <<"a", "a">> >>, FALSE, FALSE) >> >>,
       << <<"a", "b", ".", "a", "b", "c">>,
          << Level(<< <<"a">>, <<"A">> >>, TRUE, FALSE) >> >>,
       << <<"A", "d">>, << Level(<< <<"c">> >>, TRUE, TRUE) >> >>,
       << <<"d">>, <<>> >> }]

Codes ==
  { <<>>,
    <<"a">>,
    <<"a", "b", ".">>,
    <<"a", "b", ".", "a">>,
    <<"c", "=", "a", "b", ".", "a", "b">>,
    <<"a", "b", ".", "a", "b", "c", ".", "a">>,
    <<"c", "c", ".", "a">>,
    <<"a", "b", "]", ".", "a">>,
    <<".", "a">>,
    <<"\n", "a">>,
    <<"a", "b", ".", "a", "\n", "d", ".">>,
    <<"d", ".", "a">>,
    <<"A", "d", ".", "c">>,
    <<"a", " ", "b">> }

\* The length of the longest text.
MaxCodeLen == 8

\* One offset before the text and two offsets after it are tried too.
MaxOvershoot == 2

InitComplete ==
  /\ content = EmptyContent
  /\ globalThis = NoBindings
  /\ config = ExecutorConfig
  /\ executor = TRUE
  /\ served = NoServed
  /\ nreq = 0
  /\ source = <<>>
  /\ resolved = <<>>
  /\ args \in { << code, cursorPos >> :
                  code \in Codes, cursorPos \in -1..(MaxCodeLen + MaxOvershoot) }
  /\ args[2] <= Len(args[1]) + MaxOvershoot
  /\ result = Absent

\* completeRequest(code, cursorPos)
CompleteRequest ==
  /\ result = Absent
  /\ result' = completeRequest(args[1], args[2], GlobalScope)
  /\ UNCHANGED <<content, globalThis, config, executor, served, nreq, source,
                 resolved, args>>

NextComplete == CompleteRequest

SpecComplete == InitComplete /\ [][NextComplete]_vars

(***************************************************************************)
(* isComplete on its own: any text, whatever the parser says of it.        *)
(***************************************************************************)
\* Texts that are scripts: parseScript returns.
Scripts ==
  { <<"c", "o", "n", "s", "t", " ", "x", " ", "=", " ", "1", ";">> }

\* Empty and whitespace-only texts.
BlankTexts ==
  { <<>>,
    <<" ">>,
    <<"\n", " ", "\t">> }

\* Texts that are not scripts: parseScript throws.
BrokenTexts ==
  { <<"f", "u", "n", "c", "t", "i", "o", "n", " ", "f", "(", ")", " ", "{">>,
    <<")">>,
    <<" ", " ", "f", "o", "o", "(">>,
    <<"i", "f", " ", "(", "a", ")", " ", "{", "\n", " ", " ", "b", " ", "=", " ", "[">>,
    <<"'", "a", "b">>,
    <<"a", " ", "=", " ", "{", "\n", " ", " ">>,
    <<"\t", "f", "(">>,
    <<"x", " ", "+">>,
    <<"b", " ", "=", " ", "\"", "a", "\n">> }

\* Messages of a parser's syntax errors.
MsgEndOfInput ==
  <<"U", "n", "e", "x", "p", "e", "c", "t", "e", "d", " ", "e", "n", "d",
    " ", "o", "f", " ", "i", "n", "p", "u", "t">>

MsgUnterminatedString ==
  <<"U", "n", "t", "e", "r", "m", "i", "n", "a", "t", "e", "d", " ", "s",
    "t", "r", "i", "n", "g", " ", "l", "i", "t", "e", "r", "a", "l">>

MsgUnterminatedTemplate ==
  <<"U", "n", "t", "e", "r", "m", "i", "n", "a", "t", "e", "d", " ", "t",
    "e", "m", "p", "l", "a", "t", "e", " ", "l", "i", "t", "e", "r", "a",
    "l">>

MsgTokenEOF ==
  <<"U", "n", "e", "x", "p", "e", "c", "t", "e", "d", " ", "t", "o", "k",
    "e", "n", " ", "E", "O", "F">>

MsgExpectedButEnd ==
  <<"E", "x", "p", "e", "c", "t", "e", "d", " ", "}", " ", "b", "u", "t",
    " ", "f", "o", "u", "n", "d", " ", "e", "n", "d", " ", "o", "f", " ",
    "f", "i", "l", "e">>

MsgEndOfSource ==
  <<"U", "n", "e", "x", "p", "e", "c", "t", "e", "d", " ", "t", "o", "k",
    "e", "n", ":", " ", "'", "e", "n", "d", " ", "o", "f", " ", "s", "o",
    "u", "r", "c", "e", "'">>

MsgToken ==
  <<"U", "n", "e", "x", "p", "e", "c", "t", "e", "d", " ", "t", "o", "k",
    "e", "n", ":", " ", "'", ")", "'">>

MsgExpected ==
  <<"E", "x", "p", "e", "c", "t", "e", "d", " ", "'", ")", "'">>

MsgNone ==
  <<>>

MsgButExpected ==
  <<"B", "u", "t", " ", "e", "x", "p", "e", "c", "t", "e", "d", " ", "t",
    "h", "e", " ", "e", "n", "d">>

Messages ==
  { MsgEndOfInput,
    MsgUnterminatedString,
    MsgUnterminatedTemplate,
    MsgTokenEOF,
    MsgExpectedButEnd,
    MsgEndOfSource,
    MsgToken,
    MsgExpected,
    MsgNone,
    MsgButExpected }

InitIsComplete ==
  /\ content = EmptyContent
  /\ globalThis = NoBindings
  /\ config = ExecutorConfig
  /\ executor = TRUE
  /\ served = NoServed
  /\ nreq = 0
  /\ source = <<>>
  /\ resolved = <<>>
  /\ args \in { << code, Parses >> : code \in Scripts \cup BlankTexts }
         \cup { << code, Fails(message) >> :
                  code \in BrokenTexts \cup BlankTexts, message \in Messages }
  /\ result = Absent

\* isComplete(code)
IsComplete ==
  /\ result = Absent
  /\ result' = isComplete(args[1], args[2])
  /\ UNCHANGED <<content, globalThis, config, executor, served, nreq, source,
                 resolved, args>>

NextIsComplete == IsComplete

SpecIsComplete == InitIsComplete /\ [][NextIsComplete]_vars

(***************************************************************************)
(* inspect on its own: any text, any cursor offset, either level of        *)
(* detail, in a kernel that has its executor or not.                       *)
(***************************************************************************)
\* The iframe's window: a (the array [undefined]), ab (an object with the
\* number abc and the function abd), b (undefined), c (null), d (a string),
\* ba (a function whose toString throws), bb (an object whose property x
\* has a getter that throws), da (an object of twenty-one properties), Date
\* and a property named class.
InspectScope ==
  [tree |->
     { << << <<"a">> >>,
          InspectValue("array", <<"Array">>, <<"1">>,
                       << << <<"0">>, <<"undefined">> >> >>, <<>>, FALSE) >>,
       << << <<"a">>, <<"0">> >>, UndefinedValue >>,
       << << <<"a", "b">> >>,
          InspectValue("object", <<>>, <<>>,
                       << << <<"a", "b", "c">>, <<"number">> >>,
                          << <<"a", "b", "d">>, <<"function ", "abd", "()">> >> >>,
                       <<>>, FALSE) >>,
       << << <<"a", "b">>, <<"a", "b", "c">> >>,
          InspectValue("number", <<>>, <<>>, <<>>, <<"1">>, FALSE) >>,
       << << <<"a", "b">>, <<"a", "b", "d">> >>,
          InspectValue("function", <<"abd">>, <<>>, <<>>,
                       <<"function abd(x)">>, FALSE) >>,
       << << <<"b">> >>, UndefinedValue >>,
       << << <<"c">> >>, InspectValue("null", <<>>, <<>>, <<>>, <<"null">>, FALSE) >>,
       << << <<"d">> >>, InspectValue("string", <<>>, <<>>, <<>>, <<"x">>, FALSE) >>,
       << << <<"b", "a">> >>,
          InspectValue("function", <<>>, <<>>, <<>>, <<>>, TRUE) >>,
       << << <<"b", "b">> >>,
          InspectValue("object", <<"Point">>, <<>>, <<>>, <<>>, FALSE) >>,
       << << <<"b", "b">>, <<"x">> >>, UndefinedValue >>,
       << << <<"d", "a">> >>,
          InspectValue("object", <<>>, <<>>,
                       << << <<"k", "1">>, <<"number">> >>, << <<"k", "2">>, <<"number">> >>, << <<"k", "3">>,
       <<"number">> >>, << <<"k", "4">>, <<"number">> >>, << <<"k", "5">>, <<"number">> >>,
       << <<"k", "6">>, <<"number">> >>, << <<"k", "7">>, <<"number">> >>, << <<"k", "8">>,
       <<"number">> >>, << <<"k", "9">>, <<"number">> >>, << <<"k", "1", "0">>, <<"number">>
       >>, << <<"k", "1", "1">>, <<"number">> >>, << <<"k", "1", "2">>, <<"number">> >>, << <<"k", "1", "3">>,
       <<"number">> >>, << <<"k", "1", "4">>, <<"number">> >>, << <<"k", "1", "5">>, <<"number">>
       >>, << <<"k", "1", "6">>, <<"number">> >>, << <<"k", "1", "7">>, <<"number">> >>, << <<"k", "1", "8">>,
       <<"number">> >>, << <<"k", "1", "9">>, <<"number">> >>, << <<"k", "2", "0">>, <<"number">>
       >>, << <<"k", "2", "1">>, <<"number">> >> >>,
                       <<>>, FALSE) >>,
       << << <<"D", "a", "t", "e">> >>,
          InspectValue("function", <<"Date">>, <<>>, <<>>,
                       <<"function Date() { [native code] }">>, FALSE) >>,
       << << <<"c", "l", "a", "s", "s">> >>,
          InspectValue("number", <<>>, <<>>, <<>>, <<"1">>, FALSE) >> },
   throwing |-> { << <<"b", "b">>, <<"x">> >> },
   object |->
     << Level(<< <<"a">>, <<"a", "b">>, <<"b">>, <<"c">>, <<"d">>, <<"b", "a">>, <<"b", "b">>, <<"d", "a">>, <<"D", "a", "t", "e">>,
                 <<"c", "l", "a", "s", "s">> >>, TRUE, FALSE) >>]

InspectedCodes ==
  { <<>>, <<" ", "(">>, <<"a", "b">>, <<"a", "b", ".", "a", "b", "c">>, <<"c", " ", "=", " ", "a", "b", ".", "a", "b", "d", "(", "1", ")">>, <<"D", "a", "t", "e">>, <<"S", "e", "t">>, <<"b">>,
    <<"c", ".", "x">>, <<"d", ".", "a">>, <<"b", "a">>, <<"b", "b", ".", "x">>, <<"c", "l", "a", "s", "s">>, <<"a", ".", "0">>, <<"a", "b", ".">>, <<"d", "a">>,
    <<"x", "x", "x", "x", "x", "x", "x", "x", "x">>, <<"M", "a", "t", "h">>, <<"a", ".", "b", ".", "c">> }

\* The length of the longest text.
MaxInspectedLen == 13

\* The levels of detail of a request.
DetailLevels == {0, 1}

InitInspect ==
  /\ content = EmptyContent
  /\ globalThis = NoBindings
  /\ config = ExecutorConfig
  /\ executor \in BOOLEAN
  /\ served = NoServed
  /\ nreq = 0
  /\ source = <<>>
  /\ resolved = <<>>
  /\ args \in { << code, cursorPos, detailLevel >> :
                  code \in InspectedCodes,
                  cursorPos \in -1..(MaxInspectedLen + 1),
                  detailLevel \in DetailLevels }
  /\ args[2] <= Len(args[1]) + 1
  /\ result = Absent

\* JavaScriptKernel.inspectRequest(content)
InspectRequest ==
  /\ result = Absent
  /\ result' = inspectRequest(executor, args[1], args[2], args[3], InspectScope)
  /\ UNCHANGED <<content, globalThis, config, executor, served, nreq, source,
                 resolved, args>>

NextInspect == InspectRequest

SpecInspect == InitInspect /\ [][NextInspect]_vars

(***************************************************************************)
(* cleanStackTrace on its own: any stack of a few lines.                   *)
(***************************************************************************)
StackLines ==
  { <<"E", "r", "r", "o", "r", ":", " ", "x">>, <<" ", "a", "t", " ", "f", " ", "(", "a", ":", "1", ")">>, <<" ", "a", "t", " ", "a", "s", "y", "n", "c", "F", "u", "n", "c", "t", "i", "o", "n", " ", "(", "a", ":", "2", ")">>,
    <<" ", "a", "t", " ", "n", "e", "w", " ", "F", "u", "n", "c", "t", "i", "o", "n", " ", "(", "<", "a", "n", "o", "n", "y", "m", "o", "u", "s", ">", ")">>, <<" ", "a", "t", " ", "m", "a", "k", "e", "A", "s", "y", "n", "c", "F", "r", "o", "m", "C", "o", "d", "e", " ", "(", "k", ".", "j", "s", ":", "9", ")">>,
    <<" ", "a", "t", " ", "m", "y", "a", "s", "y", "n", "c", "F", "u", "n", "c", "t", "i", "o", "n", "s">>, <<>> }

\* The lines of the longest stack.
MaxStackLines == 3

Stacks ==
  { <<>> } \cup
  { join(lines, <<"\n">>) :
      lines \in UNION { [1..n -> StackLines] : n \in 1..MaxStackLines } }

InitClean ==
  /\ content = EmptyContent
  /\ globalThis = NoBindings
  /\ config = ExecutorConfig
  /\ executor = TRUE
  /\ served = NoServed
  /\ nreq = 0
  /\ source = <<>>
  /\ resolved = <<>>
  /\ args \in { << stack >> : stack \in Stacks }
  /\ result = Absent

\* cleanStackTrace(error)
CleanStackTrace ==
  /\ result = Absent
  /\ result' = [does |-> "returns", text |-> cleanStackTrace(args[1])]
  /\ UNCHANGED <<content, globalThis, config, executor, served, nreq, source,
                 resolved, args>>

NextClean == CleanStackTrace

SpecClean == InitClean /\ [][NextClean]_vars

(***************************************************************************)
(* The outputs of a running cell.  The cell is the sequence of the calls   *)
(* its code makes: console.log, console.error, display, and await of a     *)
(* later task (a timer), at which the cell is suspended.  A console call   *)
(* posts a message to the host window; the message is a task of the event  *)
(* loop, which runs only while no code of the cell runs.  display calls    *)
(* the kernel's displayData directly.  The reply of executeRequest is       *)
(* returned in a microtask of the completion of the cell.                  *)
(***************************************************************************)
Calls == {"log", "error", "display", "await"}

\* The calls of the longest cell.
MaxCalls == 3

Cells == UNION { [1..n -> Calls] : n \in 0..MaxCalls }

NotStarted == [pc |-> 1, posted |-> <<>>, published |-> <<>>, replied |-> FALSE]

InitOutputs ==
  /\ content = EmptyContent
  /\ globalThis = NoBindings
  /\ config = ExecutorConfig
  /\ executor = TRUE
  /\ served = NoServed
  /\ nreq = 0
  /\ source = <<>>
  /\ resolved = <<>>
  /\ args \in Cells
  /\ result = NotStarted

\* console.log, console.info, console.error, console.warn as overridden in
\* the iframe: window.parent.postMessage of a stream message.
ConsoleCall ==
  /\ result.pc <= Len(args)
  /\ args[result.pc] \in {"log", "error"}
  /\ result' = [result EXCEPT
                  !.pc = @ + 1,
                  !.posted = Append(@, [type |-> "stream",
                                        name |-> IF args[result.pc] = "log"
                                                 THEN "stdout" ELSE "stderr",
                                        call |-> result.pc])]
  /\ UNCHANGED <<content, globalThis, config, executor, served, nreq, source,
                 resolved, args>>

\* display(obj) as _setupDisplay defines it: this.displayData(...).
DisplayCall ==
  /\ result.pc <= Len(args)
  /\ args[result.pc] = "display"
  /\ result' = [result EXCEPT
                  !.pc = @ + 1,
                  !.published = Append(@, [type |-> "display_data",
                                           name |-> "",
                                           call |-> result.pc])]
  /\ UNCHANGED <<content, globalThis, config, executor, served, nreq, source,
                 resolved, args>>

\* The task the cell awaits has run: the cell resumes.
Resume ==
  /\ result.pc <= Len(args)
  /\ args[result.pc] = "await"
  /\ result' = [result EXCEPT !.pc = @ + 1]
  /\ UNCHANGED <<content, globalThis, config, executor, served, nreq, source,
                 resolved, args>>

\* The 'message' listener of the host window: _processMessage publishes the
\* stream.  The task runs while the cell is suspended or after it ended.
ProcessMessage ==
  /\ Len(result.posted) > 0
  /\ IF result.pc > Len(args) THEN TRUE ELSE args[result.pc] = "await"
  /\ result' = [result EXCEPT
                  !.posted = Tail(@),
                  !.published = Append(@, result.posted[1])]
  /\ UNCHANGED <<content, globalThis, config, executor, served, nreq, source,
                 resolved, args>>

\* executeRequest returns its reply once the promise of the cell is settled.
ReturnReply ==
  /\ result.pc > Len(args)
  /\ ~result.replied
  /\ result' = [result EXCEPT !.replied = TRUE]
  /\ UNCHANGED <<content, globalThis, config, executor, served, nreq, source,
                 resolved, args>>

NextOutputs ==
  \/ ConsoleCall
  \/ DisplayCall
  \/ Resume
  \/ ProcessMessage
  \/ ReturnReply

SpecOutputs == InitOutputs /\ [][NextOutputs]_vars

(***************************************************************************)
(* The export pass on one destructuring declaration, under SpecExports.    *)
(***************************************************************************)
\* The longest pattern drawn.
MaxElements == 2

\* The elements of an array pattern: a, b, a hole, [c], d = 1, ...r.
ArrayElements ==
  { Identifier("a"), Identifier("b"), Hole,
    ArrayPattern(<< Identifier("c") >>),
    AssignmentPattern(Identifier("d")),
    RestElement(Identifier("r")) }

\* The properties of an object pattern: { a }, { b: e }, { default: X },
\* { c: { f } }, { d = 1 }, { ...r }.
ObjectProperties ==
  { Property("a", Identifier("a")),
    Property("b", Identifier("e")),
    Property("default", Identifier("X")),
    Property("c", ObjectPattern(<< Property("f", Identifier("f")) >>)),
    Property("d", AssignmentPattern(Identifier("d"))),
    RestElement(Identifier("r")) }

isRest(item) == "type" \in DOMAIN item /\ item.type = "RestElement"

\* The patterns drawn: array and object patterns of up to MaxElements
\* distinct items, a rest element only in the last place.
Patterns ==
  LET lists(S) == UNION { [1..n -> S] : n \in 1..MaxElements }
      wellFormed(items) ==
        /\ \A i, j \in DOMAIN items : i # j => items[i] # items[j]
        /\ \A i \in DOMAIN items : isRest(items[i]) => i = Len(items)
  IN  { ArrayPattern(items) : items \in { l \in lists(ArrayElements) : wellFormed(l) } }
      \cup
      { ObjectPattern(items) : items \in { l \in lists(ObjectProperties) : wellFormed(l) } }

InitExports ==
  /\ content = EmptyContent
  /\ globalThis = NoBindings
  /\ config = ExecutorConfig
  /\ executor = TRUE
  /\ served = NoServed
  /\ nreq = 0
  /\ source = <<>>
  /\ resolved = <<>>
  /\ args \in { << pattern >> : pattern \in Patterns }
  /\ result = Absent

\* addToGlobalScope(ast) on the tree of  const <pattern> = init;
AddToGlobalScope ==
  /\ result = Absent
  /\ result' = addToGlobalScopeOutcome(
                 [body |-> << Node("VariableDeclaration", 0, NoExpression,
                                   NoPattern, << [id |-> args[1]] >>, <<>>,
                                   <<>>) >>])
  /\ UNCHANGED <<content, globalThis, config, executor, served, nreq, source,
                 resolved, args>>

NextExports == AddToGlobalScope

SpecExports == InitExports /\ [][NextExports]_vars

(***************************************************************************)
(* DisplayHelper, under SpecDisplay.  result holds the helpers constructed *)
(* so far and the display data their callbacks received.  A helper has its *)
(* displayId, the callbacks set on it (0: none, else the helper they were  *)
(* registered on), its stored result, and two records of its history: the  *)
(* helper whose display() made it with that helper's callbacks at the      *)
(* time, and the number of display methods called on it.                   *)
(***************************************************************************)
\* The helpers constructed at most.
MaxHelpers == 2

\* The display methods called at most, on all helpers together.
MaxSent == 1

\* The display methods called so far.
RECURSIVE Sent(_)
Sent(helpers) ==
  IF Len(helpers) = 0 THEN 0 ELSE helpers[1].sent + Sent(Tail(helpers))

\* The display ids passed: none, the empty text, a name.
DisplayIds == {"undefined", "", "plot"}

\* The MIME types of the bundle each display method sends.
MethodTypes ==
  [html |-> {"text/html", "text/plain"},
   svg |-> {"image/svg+xml", "text/plain"},
   png |-> {"image/png", "text/plain"},
   jpeg |-> {"image/jpeg", "text/plain"},
   text |-> {"text/plain"},
   markdown |-> {"text/markdown", "text/plain"},
   latex |-> {"text/latex", "text/plain"},
   json |-> {"application/json", "text/plain"},
   mime |-> {"application/x.custom"}]

DisplayMethods == DOMAIN MethodTypes

\* No stored result.
NoResult == {}

\* new DisplayHelper(displayId)
newDisplayHelper(displayId, madeBy, madeWithCallbacks) ==
  [displayId |-> displayId, displayCallback |-> 0, result |-> NoResult,
   madeBy |-> madeBy, madeWithCallbacks |-> madeWithCallbacks, sent |-> 0]

\* this._displayId ? { display_id: this._displayId } : undefined
transientOf(displayId) ==
  IF displayId \in {"undefined", ""} THEN "undefined" ELSE displayId

\* _sendDisplay(data, metadata) on helper h
sendDisplay(state, h, data) ==
  IF state.helpers[h].displayCallback # 0
  THEN [state EXCEPT
          !.delivered = Append(@, [data |-> data,
                                   transient |-> transientOf(state.helpers[h].displayId),
                                   callback |-> state.helpers[h].displayCallback,
                                   by |-> h]),
          !.helpers[h].sent = @ + 1]
  ELSE [state EXCEPT !.helpers[h].result = data, !.helpers[h].sent = @ + 1]

InitDisplay ==
  /\ content = EmptyContent
  /\ globalThis = NoBindings
  /\ config = ExecutorConfig
  /\ executor = TRUE
  /\ served = NoServed
  /\ nreq = 0
  /\ source = <<>>
  /\ resolved = <<>>
  /\ args \in { << id >> : id \in DisplayIds }
  /\ result = [helpers |-> << newDisplayHelper(args[1], 0, 0) >>,
               delivered |-> <<>>]

\* helper.setCallbacks(callbacks)
SetCallbacks(h) ==
  /\ result.helpers[h].displayCallback = 0
  /\ result' = [result EXCEPT !.helpers[h].displayCallback = h]
  /\ UNCHANGED <<content, globalThis, config, executor, served, nreq, source,
                 resolved, args>>

\* helper.display(id)
Display(h, id) ==
  /\ Len(result.helpers) < MaxHelpers
  /\ result' = [result EXCEPT
                  !.helpers = Append(@, newDisplayHelper(id, h,
                                          result.helpers[h].displayCallback))]
  /\ UNCHANGED <<content, globalThis, config, executor, served, nreq, source,
                 resolved, args>>

\* helper.html(content), helper.svg(content), ...
SendDisplay(h, method) ==
  /\ Sent(result.helpers) < MaxSent
  /\ result' = sendDisplay(result, h, MethodTypes[method])
  /\ UNCHANGED <<content, globalThis, config, executor, served, nreq, source,
                 resolved, args>>

\* helper.clearResult()
ClearResult(h) ==
  /\ result.helpers[h].result # NoResult
  /\ result' = [result EXCEPT !.helpers[h].result = NoResult]
  /\ UNCHANGED <<content, globalThis, config, executor, served, nreq, source,
                 resolved, args>>

NextDisplay ==
  \E h \in DOMAIN result.helpers :
    \/ SetCallbacks(h)
    \/ \E id \in DisplayIds : Display(h, id)
    \/ \E method \in DisplayMethods : SendDisplay(h, method)
    \/ ClearResult(h)

SpecDisplay == InitDisplay /\ [][NextDisplay]_vars

(***************************************************************************)
(* The life of a kernel, under SpecDispose.  result holds the kernel after *)
(* its constructor returned: _initIFrame has created the container and the *)
(* iframe and waits for the load event.  listeners counts the 'message'    *)
(* listeners of the kernel on the host window, inFlight the messages the   *)
(* iframe posted that the host window has not dispatched yet; processed    *)
(* and late count the messages handed to _processMessage, late those after *)
(* dispose() returned.                                                     *)
(***************************************************************************)
\* The messages the iframe posts at most.
MaxPosted == 5

\* The calls of dispose() at most.
MaxDisposals == 2

Constructed ==
  [pc |-> "awaitLoad", attached |-> TRUE, container |-> TRUE,
   messageHandler |-> FALSE, listeners |-> 0, consoleOverridden |-> FALSE,
   hasExecutor |-> FALSE, ready |-> FALSE, isDisposed |-> FALSE,
   disposals |-> 0, posted |-> 0, inFlight |-> 0, processed |-> 0, late |-> 0]

InitDispose ==
  /\ content = EmptyContent
  /\ globalThis = NoBindings
  /\ config = ExecutorConfig
  /\ executor = FALSE
  /\ served = NoServed
  /\ nreq = 0
  /\ source = <<>>
  /\ resolved = <<>>
  /\ args = <<>>
  /\ result = Constructed

\* The iframe's onload callback resolves the promise _initIFrame awaits, and
\* _initIFrame runs to its end: console overrides and executor only when the
\* iframe has a contentWindow, the message listener in every case.
IFrameLoad ==
  /\ result.pc = "awaitLoad"
  /\ result' = [result EXCEPT
                  !.pc = "done",
                  !.consoleOverridden = result.attached,
                  !.messageHandler = TRUE,
                  !.listeners = @ + 1,
                  !.hasExecutor = result.attached,
                  !.ready = TRUE]
  /\ UNCHANGED <<content, globalThis, config, executor, served, nreq, source,
                 resolved, args>>

\* _cleanupIFrame()
cleanupIFrame(kernel) ==
  [kernel EXCEPT
     !.listeners = IF kernel.messageHandler THEN @ - 1 ELSE @,
     !.messageHandler = FALSE,
     !.attached = FALSE,
     !.container = FALSE]

\* dispose()
Dispose ==
  /\ result.disposals < MaxDisposals
  /\ result' = IF result.isDisposed
               THEN [result EXCEPT !.disposals = @ + 1]
               ELSE [cleanupIFrame(result) EXCEPT !.isDisposed = TRUE,
                                                  !.disposals = @ + 1]
  /\ UNCHANGED <<content, globalThis, config, executor, served, nreq, source,
                 resolved, args>>

\* Code in the iframe calls an overridden console method: window._bubbleUp
\* posts a message to the host window.
BubbleUp ==
  /\ result.consoleOverridden
  /\ result.attached
  /\ result.posted < MaxPosted
  /\ result' = [result EXCEPT !.posted = @ + 1, !.inFlight = @ + 1]
  /\ UNCHANGED <<content, globalThis, config, executor, served, nreq, source,
                 resolved, args>>

\* The host window dispatches a posted message: the kernel's listener, when
\* registered, hands it to _processMessage if its source is the iframe's
\* contentWindow.
MessageEvent ==
  /\ result.inFlight > 0
  /\ result' = IF result.listeners > 0 /\ result.attached
               THEN [result EXCEPT !.inFlight = @ - 1,
                                   !.processed = @ + 1,
                                   !.late = IF result.isDisposed THEN @ + 1 ELSE @]
               ELSE [result EXCEPT !.inFlight = @ - 1]
  /\ UNCHANGED <<content, globalThis, config, executor, served, nreq, source,
                 resolved, args>>

NextDispose ==
  \/ IFrameLoad
  \/ Dispose
  \/ BubbleUp
  \/ MessageEvent

SpecDispose == InitDispose /\ [][NextDispose]_vars

(***************************************************************************)
(* Properties of the rewriter and of executeRequest, under Spec.           *)
(***************************************************************************)
\* The last top-level statement of a request's text.
LastNode(c) == c.body[Len(c.body)]

\* The request served last was an executeRequest whose text parsed and for
\* which makeAsyncFromCode returned a unit.
Made ==
  /\ served.op = "execute"
  /\ served.hadExecutor
  /\ Len(served.content.code) > 0
  /\ served.content.diagnostic = ""
  /\ ~ served.unit.threw

\* The last statement of the request served last is written with a final ";".
Terminated == served.content.code[LastNode(served.content).end] = ";"

\* The keys of the export statements of a text.
ExportKeys(text) ==
  { text[i + 1] : i \in { k \in 1..(Len(text) - 1) : text[k] = "globalThis[\"" } }

\* The names a text declares.
DeclaredSet(text) == { DeclaredNames(text)[i] : i \in DOMAIN DeclaredNames(text) }

\* The execute results among the messages of the request served last.
Results ==
  { i \in DOMAIN served.published : served.published[i].type = "execute_result" }

\* C1 (read with C2, which sets the assignment expressions apart): when the
\* last top-level statement is an expression statement that is not an
\* assignment and is not terminated by a semicolon, makeAsyncFromCode returns
\* withReturn = TRUE, and a unit that runs to its end resolves to a
\* one-element array that holds the value of the expression: the literal
\* itself, and for a comma expression its last operand.
ImplicitResultIsTheValue ==
  (/\ Made
   /\ LastNode(served.content).type = "ExpressionStatement"
   /\ LastNode(served.content).expression.type # "AssignmentExpression"
   /\ ~ Terminated)
  => /\ served.unit.withReturn
     /\ served.reply.status = "ok" =>
          /\ Len(served.resultHolder) = 1
          /\ LastNode(served.content).expression.type \in
               {"Literal", "SequenceExpression"}
             => served.resultHolder[1] =
                  << served.content.code[LastNode(served.content).expression.end] >>

\* C2: when the last top-level statement ends with a semicolon, or is an
\* assignment expression, or is no expression statement, makeAsyncFromCode
\* returns withReturn = FALSE and the implicit-result pass leaves the text
\* of the request as it was.
NoImplicitResult ==
  (/\ Made
   /\ \/ Terminated
      \/ LastNode(served.content).expression.type = "AssignmentExpression"
      \/ LastNode(served.content).type # "ExpressionStatement")
  => /\ ~ served.unit.withReturn
     /\ served.unit.modifiedUserCode = served.content.code
     /\ served.unit.extraReturnCode = <<>>

NoImplicitResultWitness ==
  /\ Made
  /\ Terminated
  /\ LastNode(served.content).type = "ExpressionStatement"
  /\ Len(served.content.body) = 2
  /\ ~ served.unit.withReturn
  /\ served.reply.status = "ok"

\* C3: executeRequest publishes an execute result exactly when the unit has
\* a captured result and the captured value is not undefined; a captured
\* undefined is never published and a captured 0, '', false or null is.
PublishesUnlessUndefined ==
  served.op = "execute" =>
    /\ Cardinality(Results) <= 1
    /\ Results # {} <=>
         /\ served.unit.withReturn
         /\ served.called
         /\ served.reply.status = "ok"
         /\ Len(served.resultHolder) > 0
         /\ served.resultHolder[1] # <<"undefined">>
    /\ (/\ served.unit.withReturn
        /\ served.reply.status = "ok"
        /\ Len(served.resultHolder) > 0
        /\ served.resultHolder[1] \in { <<"0">>, <<"''">>, <<"false">>, <<"null">> })
       => Results # {}

PublishesUnlessUndefinedWitness ==
  /\ served.op = "execute"
  /\ served.unit.withReturn
  /\ served.resultHolder = << <<"0">> >>
  /\ Results # {}

\* C4: for a top-level object-destructuring declaration, the export pass
\* emits an export keyed by every name the pattern binds, and none keyed by
\* a source property name that the cell does not bind (const {a, b: c} = obj
\* exports a and c, never b).
DestructuringExportsBoundNames ==
  Made =>
    \A i \in DOMAIN served.content.body :
      \A j \in DOMAIN served.content.body[i].declarations :
        LET id == served.content.body[i].declarations[j].id
        IN  id.type = "ObjectPattern" =>
              /\ BoundNames(id) \subseteq ExportKeys(served.unit.codeAddToGlobalScope)
              /\ \A k \in DOMAIN id.properties :
                   id.properties[k].key.name \notin Declared(served.content)
                   => id.properties[k].key.name \notin
                        ExportKeys(served.unit.codeAddToGlobalScope)

\* C5: for an import statement with named specifiers, the lowered code binds
\* every local name of the statement, and every local name is the key of an
\* export statement.
NamedImportsBindLocalNames ==
  Made =>
    \A i \in DOMAIN served.content.body :
      \A k \in DOMAIN served.content.body[i].specifiers :
        LET specifier == served.content.body[i].specifiers[k]
        IN  specifier.type = "ImportSpecifier" =>
              /\ specifier.local.name \in DeclaredSet(served.unit.finalCode)
              /\ specifier.local.name \in
                   ExportKeys(served.unit.codeAddToGlobalScope)

\* C6: when the text of the request does not parse, makeAsyncFromCode throws
\* the parser's error, and executeRequest calls no unit, leaves the global
\* object as it was, publishes exactly one message, an execute error, and
\* replies with status error and the name and message of that error.
ParseErrorIsReported ==
  (/\ served.op = "execute"
   /\ served.hadExecutor
   /\ served.content.diagnostic # "")
  => /\ served.unit.threw
     /\ served.unit.error =
          [name |-> "SyntaxError", message |-> << served.content.diagnostic >>]
     /\ ~ served.called
     /\ globalThis = served.before
     /\ served.published =
          << ExecuteError("SyntaxError", << served.content.diagnostic >>) >>
     /\ served.reply = [status |-> "error", ename |-> "SyntaxError",
                        evalue |-> << served.content.diagnostic >>]

ParseErrorIsReportedWitness ==
  /\ served.op = "execute"
  /\ served.hadExecutor
  /\ served.content.diagnostic # ""
  /\ Len(served.content.body) = 2
  /\ served.reply.status = "error"

\* C10: extractImports never throws; on a text that does not parse and on
\* the empty text it returns the empty list; it leaves the configuration
\* and the global object as they were; and a second call on the same text
\* with the same configuration returns the same list.
ExtractImportsIsSilent ==
  served.op = "extractImports" =>
    /\ ~ served.extracted.threw
    /\ (served.content.diagnostic # "" \/ Len(served.content.code) = 0)
       => served.extracted.imports = <<>>
    /\ globalThis = served.before
    /\ config = served.configBefore

ExtractImportsRepeats ==
  (/\ served.op = "extractImports"
   /\ served'.op = "extractImports"
   /\ served'.content = served.content
   /\ served'.configBefore = served.configBefore)
  => served'.extracted = served.extracted

ExtractImportsIsPure == [] ExtractImportsIsSilent /\ [][ExtractImportsRepeats]_vars

ExtractImportsIsPureWitness ==
  /\ served.op = "extractImports"
  /\ served.content.diagnostic # ""
  /\ served.extracted.imports = <<>>
  /\ nreq = 2

\* The local names one IImportInfo reports.
ReportedNames(info) ==
  ({info.defaultImport, info.namespaceImport} \ {""})
  \cup { p[2] : p \in info.namedImports }

\* The import declarations of the request served last, in source order.
ImportNodes ==
  SelectSeq(served.content.body, LAMBDA n : n.type = "ImportDeclaration")

\* What extractImports reports of one declaration is what the lowering pass
\* reads off it.
SameBindings(info, node) ==
  /\ info.source = node.source.value
  /\ info.url = transformImportSource(node.source.value, served.configBefore)
  /\ info.defaultImport = importBindings(node.specifiers, noBindings).defaultImportName
  /\ info.namespaceImport =
       importBindings(node.specifiers, noBindings).namespaceImportName
  /\ info.namedImports =
       { << importBindings(node.specifiers, noBindings).importedNames[j],
            importBindings(node.specifiers, noBindings).localNames[j] >> :
           j \in DOMAIN importBindings(node.specifiers, noBindings).importedNames }

\* C11: for every text that parses, extractImports reports, for each
\* top-level import declaration and in source order, the resolved URL and
\* the default, namespace and named bindings that the lowering pass of
\* makeAsyncFromCode uses for it, and the local names it reports are the
\* keys of the exports the lowering pass emits.
ExtractImportsMatchesLowering ==
  (/\ served.op = "extractImports"
   /\ Len(served.content.code) > 0
   /\ served.content.diagnostic = "")
  => /\ Len(served.extracted.imports) = Len(ImportNodes)
     /\ \A i \in DOMAIN served.extracted.imports :
          SameBindings(served.extracted.imports[i], ImportNodes[i])
     /\ UNION { ReportedNames(served.extracted.imports[i]) :
                  i \in DOMAIN served.extracted.imports }
        = ExportKeys(rewriteImportStatements(served.content.code,
                                             parseScript(served.content),
                                             served.configBefore).codeAddToGlobalScope)

(***************************************************************************)
(* Properties of the rewriter and of executeRequest on one cell, under     *)
(* SpecCell.                                                               *)
(***************************************************************************)
\* The dynamic-import code that stands for one import declaration.
Lowered(node, magicImports) ==
  IF Len(node.specifiers) = 0
  THEN awaitImport(transformImportSource(node.source.value, magicImports))
       \o <<";", "\n">>
  ELSE newCodeOfNode(importBindings(node.specifiers, noBindings),
                     transformImportSource(node.source.value, magicImports))

\* What the rewritten body holds in the place of statement i of a text: the
\* dynamic-import code for an import, the statement without its expression
\* for a captured last expression, the statement itself otherwise.
Piece(c, i, isCaptured, magicImports) ==
  LET node == c.body[i]
  IN  IF node.type = "ImportDeclaration" THEN Lowered(node, magicImports)
      ELSE IF i = Len(c.body) /\ isCaptured
      THEN substring(c.code, node.start, node.expression.start)
           \o substring(c.code, node.expression.end, node.end)
      ELSE substring(c.code, node.start, node.end)

\* The text between statement i and the statement before it.
Gap(c, i) ==
  substring(c.code, IF i = 1 THEN 0 ELSE c.body[i - 1].end, c.body[i].start)

\* The original text with every import replaced and the captured expression
\* removed, statement by statement.
ExpectedBody(c, isCaptured, magicImports) ==
  Flatten([i \in DOMAIN c.body |-> Gap(c, i) \o Piece(c, i, isCaptured, magicImports)])
  \o substringFrom(c.code, LastNode(c).end)

\* C26: after the implicit-result pass and the import pass the rewritten body
\* is the original text in which the range of each top-level import is
\* replaced by its dynamic-import code and the range of a captured last
\* expression is removed; every lexeme outside those ranges is unchanged and
\* in its place, for any number and position of imports.
RewriteTouchesOnlyItsRanges ==
  Made =>
    served.unit.finalCode
      = ExpectedBody(served.content, served.unit.withReturn, served.configBefore)

\* A text of two imports was rewritten, both replaced in their places.
RewriteTouchesOnlyItsRangesWitness ==
  /\ Made
  /\ Len(served.content.body) = 2
  /\ \A i \in 1..2 : served.content.body[i].type = "ImportDeclaration"
  /\ served.content.body[1].specifiers # <<>>
  /\ served.unit.finalCode
       = Lowered(served.content.body[1], served.configBefore) \o <<"\n">>
         \o Lowered(served.content.body[2], served.configBefore)
  /\ served.unit.finalCode # served.content.code

\* The request served last ran its unit.
Ran == Made /\ served.called

\* The run of the rewritten body of the request served last, on its own.
BodyRun ==
  callAsyncFunction(functionText(served.unit.finalCode, <<>>, <<>>), served.before)

\* The run of the rewritten body followed by the export statements.
ExportsRun ==
  callAsyncFunction(functionText(served.unit.finalCode,
                                 served.unit.codeAddToGlobalScope, <<>>),
                    served.before)

\* C27: the unit runs the rewritten body, then the export statements, then the
\* return of the captured expression.  When the body throws, no name the cell
\* declares is written to the global object; the run that reaches the return
\* has written every export before, and a run that fails before the return
\* leaves what the body and the exports did and reports their error.
BodyThenExportsThenReturn ==
  Ran =>
    /\ BodyRun.status = "rejected" =>
         /\ \A n \in Declared(served.content) : globalThis[n] = served.before[n]
         /\ served.reply.status = "error"
    /\ served.unit.withReturn /\ served.resultHolder # <<>> =>
         /\ ExportsRun.status = "resolved"
         /\ \A k \in ExportKeys(served.unit.codeAddToGlobalScope) :
              globalThis[k] # Unbound
    /\ ExportsRun.status = "resolved" => globalThis = ExportsRun.glob
    /\ ExportsRun.status = "rejected" =>
         /\ globalThis = ExportsRun.glob
         /\ served.resultHolder = <<>>
         /\ served.reply.ename = ExportsRun.error.name

\* A cell declared obj and captured its last expression: obj was written
\* when the return ran.
BodyThenExportsThenReturnWitness ==
  /\ Ran
  /\ served.unit.withReturn
  /\ served.resultHolder # <<>>
  /\ "obj" \in Declared(served.content)
  /\ served.before["obj"] = Unbound
  /\ globalThis["obj"] # Unbound

\* A cell that declares obj threw in its body: obj was not written.
BodyThrowsWitness ==
  /\ Ran
  /\ BodyRun.status = "rejected"
  /\ "obj" \in Declared(served.content)
  /\ globalThis["obj"] = Unbound
  /\ served.reply.status = "error"

\* The messages of a type among those the request served last published.
Published(type) ==
  { i \in DOMAIN served.published : served.published[i].type = type }

NoExecutorWitness ==
  /\ served.op = "execute"
  /\ ~ served.hadExecutor
  /\ Len(served.content.code) > 0
  /\ served.published = <<>>
  /\ served.reply.ename = "ExecutorError"

(***************************************************************************)
(* Properties of getMimeBundle, under SpecPresent.                         *)
(***************************************************************************)
\* getMimeBundle has been called on the value at hand.
Presented == result # Absent

\* The media types of a bundle.
MediaTypes(bundle) == { e[1] : e \in bundle.entries }

\* The presentation methods of the probe.
ProbeMethods == { p[1] : p \in Probes }

\* The value at hand is an object whose _toMime does not end the probe.
Probed ==
  /\ typeof(args[1]) = "object"
  /\ args[1].kind # "null"
  /\ ~ (args[1].methods["_toMime"].does = "returns"
        /\ args[1].methods["_toMime"].type = "object")

\* C12: getMimeBundle is total: for every runtime value, the objects whose
\* presentation methods, inspect method, string conversion or date
\* conversion throw included, it returns and does not throw.
GetMimeBundleIsTotal == Presented => result.does = "returns"

\* C13: whatever getMimeBundle returns is an object that has the key
\* text/plain, for the values with a _toMime method and the values with an
\* object-typed data field (null included) too.
BundleHasTextPlain ==
  (Presented /\ result.does = "returns")
  => (result.type = "object" /\ "text/plain" \in MediaTypes(result))

\* C14: in the probe, a presentation method that throws takes away its own
\* media type only: the value is presented as the same value without that
\* method is, every method that returns a string has its media type and its
\* string in the bundle, and when no method returns a string the value is
\* presented as the same value without presentation methods is.
ProbeIsolatesFailures ==
  (Presented /\ Probed) =>
    /\ \A m \in ProbeMethods :
         args[1].methods[m].does = "throws"
         => result = getMimeBundle([args[1] EXCEPT !.methods[m] = Absent])
    /\ result.does = "returns" =>
         \A p \in Probes :
           (args[1].methods[p[1]].does = "returns"
            /\ args[1].methods[p[1]].type = "string")
           => <<p[2], args[1].methods[p[1]].text>> \in result.entries
    /\ (\A m \in ProbeMethods :
          ~ (args[1].methods[m].does = "returns"
             /\ args[1].methods[m].type = "string"))
       => result = getMimeBundle([args[1] EXCEPT !.methods = NoMethods])

ProbeIsolatesFailuresWitness ==
  /\ Presented
  /\ Probed
  /\ args[1].methods["_toMime"].does = "throws"
  /\ args[1].methods["_toHtml"].does = "throws"
  /\ args[1].methods["_toSvg"].does = "returns"
  /\ args[1].methods["_toLatex"].does = "returns"
  /\ args[1].methods["inspect"].does = "throws"
  /\ MediaTypes(result) = {"image/svg+xml", "text/latex", "text/plain"}

\* C15 as stated: whenever a value has a _toMime method, getMimeBundle
\* returns what that method returns, as it is.
ToMimeIsVerbatim ==
  (Presented /\ args[1].methods["_toMime"].does # "absent")
  => result = args[1].methods["_toMime"]

\* C15 as amended: for an object (typeof 'object') whose _toMime method
\* returns an object other than null, getMimeBundle returns that object as
\* it is, whatever the other presentation methods do; a _toMime that throws
\* or returns anything else is ignored, and the value is presented as the
\* same value without _toMime is; the _toMime of a function is never called.
ToMimeObjectIsVerbatim ==
  (Presented /\ args[1].methods["_toMime"].does # "absent") =>
    IF /\ typeof(args[1]) = "object"
       /\ args[1].methods["_toMime"].does = "returns"
       /\ args[1].methods["_toMime"].type = "object"
    THEN result = args[1].methods["_toMime"]
    ELSE result = getMimeBundle([args[1] EXCEPT !.methods["_toMime"] = Absent])

ToMimeObjectIsVerbatimWitness ==
  /\ Presented
  /\ args[1].methods["_toMime"] = ReturnsObject(HtmlOnlyBundle)
  /\ args[1].methods["_toSvg"].does = "returns"
  /\ args[1].methods["inspect"].does = "returns"
  /\ result = ReturnsObject(HtmlOnlyBundle)

\* C16: for a generic object that cannot be serialised to JSON (one with a
\* cyclic reference), getMimeBundle returns the summary
\* "<ConstructorName> { N properties }" as text/plain and nothing else: the
\* object is not put into application/json.
CyclicObjectIsSummarised ==
  (/\ Presented
   /\ args[1].kind = "Object"
   /\ args[1].cyclic
   /\ args[1].methods = NoMethods
   /\ args[1].data = Absent
   /\ args[1].ownKeys.does = "returns")
  => result =
       ReturnsObject({ << "text/plain",
                          << IF args[1].name = "" THEN "Object" ELSE args[1].name,
                             " { ", ToString(Len(args[1].props)), " properties }" >> >> })

(***************************************************************************)
(* Properties of getAllProperties, under SpecProperties.                   *)
(***************************************************************************)
\* The names that can be read off the prototype chain of an object: the own
\* names of every object of the chain that lets its names be listed.
ChainNames(obj) ==
  UNION { Range(obj[i].names) : i \in { k \in DOMAIN obj : ~ obj[k].throws } }

\* The name starts with the prefix, whatever the case.
StartsWithAnyCase(name, prefix) ==
  /\ Len(prefix) <= Len(name)
  /\ \A i \in DOMAIN prefix : lowerChar(name[i]) = lowerChar(prefix[i])

\* The two names have the same letters up to position k, whatever the case.
SameLetters(a, b, k) ==
  /\ k <= Len(a)
  /\ k <= Len(b)
  /\ \A i \in 1..k : lowerChar(a[i]) = lowerChar(b[i])

\* Dictionary order: a comes before b by the alphabet, or, the letters being
\* the same, by lower case before upper case at the first difference.
Lexicographic(a, b) ==
  \/ \E k \in DOMAIN a \cap DOMAIN b :
       SameLetters(a, b, k - 1) /\ letterRank(a[k]) < letterRank(b[k])
  \/ Len(a) < Len(b) /\ SameLetters(a, b, Len(a))
  \/ /\ Len(a) = Len(b)
     /\ SameLetters(a, b, Len(a))
     /\ \E k \in DOMAIN a :
          /\ \A i \in 1..(k - 1) : a[i] = b[i]
          /\ a[k] = lowerChar(a[k])
          /\ b[k] # lowerChar(b[k])

\* C17: the list of completion matches holds no name twice; it holds
\* exactly the names on the object's prototype chain that start with the
\* prefix whatever the case; every match that starts with the prefix as it
\* is written precedes every match that does not; each of the two groups is
\* in dictionary order; own properties abc, abd, Abc with prefix ab give
\* abc, abd, Abc.
MatchesAreUniqueAndSorted ==
  result # Absent =>
    /\ \A i, j \in DOMAIN result.matches :
         i # j => result.matches[i] # result.matches[j]
    /\ Range(result.matches)
       = { n \in ChainNames(args[1]) : StartsWithAnyCase(n, args[2]) }
    /\ \A i, j \in DOMAIN result.matches :
         i < j =>
           /\ startsWith(result.matches[j], args[2])
              => startsWith(result.matches[i], args[2])
           /\ (startsWith(result.matches[i], args[2])
               <=> startsWith(result.matches[j], args[2]))
              => Lexicographic(result.matches[i], result.matches[j])
    /\ (args[1] = << Level(<< abc, abd, Abc >>, TRUE, FALSE) >>
        /\ args[2] = <<"a", "b">>)
       => result.matches = << abc, abd, Abc >>

MatchesAreUniqueAndSortedWitness ==
  /\ result # Absent
  /\ args[1] = << Level(<< Abc, abd, abc >>, TRUE, FALSE),
                  Level(<< abd, <<"A", "B">> >>, FALSE, FALSE) >>
  /\ args[2] = <<"a", "b">>
  /\ result.matches = << abc, abd, <<"A", "B">>, Abc >>

(***************************************************************************)
(* Properties of completeRequest, under SpecComplete.                      *)
(***************************************************************************)
Completed == result # Absent

\* The offset in the text of the first character of line i.
RECURSIVE lineStart(_, _)
lineStart(lines, i) ==
  IF i = 1 THEN 0 ELSE lineStart(lines, i - 1) + Len(lines[i - 1]) + 1

\* The lines whose characters, or whose end, the cursor is at.
OwningLines(code, cursorPos) ==
  { i \in DOMAIN split(code) :
      /\ lineStart(split(code), i) <= cursorPos
      /\ cursorPos <= lineStart(split(code), i) + Len(split(code)[i]) }

OwningLine(code, cursorPos) ==
  CHOOSE i \in OwningLines(code, cursorPos) :
    \A j \in OwningLines(code, cursorPos) : i <= j

\* Whether the cursor is on a line of the text, at its end.
AtLineEnd(code, cursorPos) ==
  /\ OwningLines(code, cursorPos) # {}
  /\ cursorPos = lineStart(split(code), OwningLine(code, cursorPos))
                 + Len(split(code)[OwningLine(code, cursorPos)])

\* C18: for every text and every cursor offset, completeRequest completes the
\* line that owns the cursor only when the cursor is at the end of that line,
\* with cursorStart the line's start plus the in-line start and
\* cursorStart <= cursorEnd = the cursor offset; otherwise it returns no
\* matches and cursorStart = cursorEnd = the cursor offset.
CompletesOnlyAtLineEnd ==
  Completed =>
    /\ result.does = "returns"
    /\ result.cursorEnd = args[2]
    /\ IF AtLineEnd(args[1], args[2])
       THEN /\ result.matches =
                 completeLine(split(args[1])[OwningLine(args[1], args[2])],
                              GlobalScope).matches
            /\ result.cursorStart =
                 lineStart(split(args[1]), OwningLine(args[1], args[2]))
                 + inLineCursorStart(split(args[1])[OwningLine(args[1], args[2])])
            /\ result.cursorStart <= result.cursorEnd
       ELSE /\ result.matches = <<>>
            /\ result.cursorStart = args[2]

\* C19: when the evaluation of the root expression of the completed line
\* fails, completeRequest returns no matches with the status 'error' and does
\* not throw; when the root expression is empty the matches are those of the
\* global scope and the status is not 'error'.
RootFailureIsAnErrorStatus ==
  (Completed /\ AtLineEnd(args[1], args[2])) =>
    /\ result.does = "returns"
    /\ (/\ rootObjectStr(split(args[1])[OwningLine(args[1], args[2])]) # <<>>
        /\ evalFunc(rootObjectStr(split(args[1])[OwningLine(args[1], args[2])]),
                    GlobalScope).does = "throws")
       => (result.matches = <<>> /\ result.status = "error")
    /\ rootObjectStr(split(args[1])[OwningLine(args[1], args[2])]) = <<>>
       => /\ result.status # "error"
          /\ result.matches =
               getAllProperties(GlobalScope.object,
                                toMatch(split(args[1])[OwningLine(args[1], args[2])]))

RootFailureIsAnErrorStatusWitness ==
  /\ Completed
  /\ args[1] = <<"c", "c", ".", "a">>
  /\ args[2] = 4
  /\ result.does = "returns"
  /\ result.matches = <<>>
  /\ result.status = "error"

(***************************************************************************)
(* Properties of isComplete, under SpecIsComplete.                         *)
(***************************************************************************)
Classified == result # Absent

\* The messages in which a pattern of incomplete code occurs.
TruncationMessages ==
  { MsgEndOfInput, MsgUnterminatedString, MsgUnterminatedTemplate, MsgTokenEOF,
    MsgExpectedButEnd }

\* The text after the last line break.
LastLine(code) == SubSeq(code, lastIndexIn(code, {"\n"}) + 1, Len(code))

\* The whitespace a line starts with.
LeadingWhitespace(line) ==
  SubSeq(line, 1,
         CHOOSE n \in 0..Len(line) :
           /\ \A i \in 1..n : line[i] \in WhiteSpace
           /\ n < Len(line) => line[n + 1] \notin WhiteSpace)

\* Whether the last character of a line that is not whitespace opens a
\* bracket, a brace or a parenthesis.
EndsOpen(line) ==
  \E i \in DOMAIN line :
    /\ line[i] \in {"[", "{", "("}
    /\ \A j \in (i + 1)..Len(line) : line[j] \in WhiteSpace

\* C20: isComplete returns complete, incomplete or invalid: complete when the
\* text is empty or whitespace or parses; incomplete when the message of the
\* parse error matches a pattern of truncation, the indent being the leading
\* whitespace of the last line, with two more spaces when the line ends, its
\* whitespace trimmed, with an opening bracket, brace or parenthesis; invalid
\* otherwise.  What the parser says of a text is given.
IsCompleteFollowsTheDiagnostic ==
  Classified =>
    /\ result.status \in {"complete", "incomplete", "invalid"}
    /\ result.status = "complete" <=> (args[1] \in BlankTexts \/ ~args[2].threw)
    /\ result.status = "incomplete"
         <=> /\ args[1] \notin BlankTexts
             /\ args[2].threw
             /\ args[2].message \in TruncationMessages
    /\ result.status = "incomplete"
         => result.indent =
              LeadingWhitespace(LastLine(args[1]))
              \o (IF EndsOpen(LastLine(args[1])) THEN <<" ", " ">> ELSE <<>>)

\* 'function f() {' is classified incomplete with an indent of two spaces
\* when the parser's message is one of truncation.
IsCompleteFollowsTheDiagnosticWitness ==
  /\ Classified
  /\ args[1] = <<"f", "u", "n", "c", "t", "i", "o", "n", " ", "f", "(", ")", " ", "{">>
  /\ args[2] = Fails(MsgEndOfInput)
  /\ result = [status |-> "incomplete", indent |-> <<" ", " ">>]

(***************************************************************************)
(* Properties of inspect, under SpecInspect.                               *)
(***************************************************************************)
Inspected == result # Absent

\* The media types of the data of a result.
DataTypes == { e[1] : e \in result.data }

\* C21: every result of an inspect request, with or without an executor, has
\* empty data when found is false and has text/plain and text/markdown when
\* found is true.
InspectDataFollowsFound ==
  Inspected =>
    /\ ~result.found => result.data = {}
    /\ result.found => {"text/plain", "text/markdown"} \subseteq DataTypes

\* The name Set is not in the global scope: its documentation is found.
InspectDataFollowsFoundWitness ==
  /\ Inspected
  /\ executor
  /\ args[1] = <<"S", "e", "t">>
  /\ args[2] = 3
  /\ result.found
  /\ DataTypes = {"text/plain", "text/markdown"}

\* The expression at the cursor, in its parts.
Expression == extractExpressionAtCursor(args[1], args[2])

Parts == Split(Expression, ".")

\* Whether inspect falls back on inspectBuiltin: the expression does not
\* evaluate, or its value cannot be described.
EvaluationFails ==
  \/ evalInScope(InspectScope, Parts).threw
  \/ evalInScope(InspectScope, Parts).value.throws

\* Whether a segment of the path is missing from the global scope or undefined.
MissingOrUndefined ==
  \E k \in DOMAIN Parts :
    \/ ~hasProp(InspectScope, SubSeq(Parts, 1, k))
    \/ valueAt(InspectScope, SubSeq(Parts, 1, k)).kind = "undefined"

\* Whether the walk of the path reaches a value it can describe: every
\* segment is present, is read from an object, an array or a function
\* without a throw, and the value reached can be described.
RuntimeFinds ==
  /\ \A k \in DOMAIN Parts :
       /\ hasProp(InspectScope, SubSeq(Parts, 1, k))
       /\ SubSeq(Parts, 1, k) \notin InspectScope.throwing
       /\ k < Len(Parts)
            => valueAt(InspectScope, SubSeq(Parts, 1, k)).kind
                 \in {"object", "array", "function"}
  /\ ~valueAt(InspectScope, Parts).throws

\* The names of the global scope that resemble the expression.
Resembling ==
  { name \in Range(InspectScope.object[1].names) :
      \/ includes(toLowerCase(name), toLowerCase(Expression))
      \/ includes(toLowerCase(Expression), toLowerCase(name))
      \/ isSimilar(toLowerCase(Expression), toLowerCase(name)) }

\* The text of a media type in the data of the result.
DataText(type) == (CHOOSE e \in result.data : e[1] = type)[2]

\* C22, as stated: inspect does not throw, and when the evaluation fails and
\* a segment of the path is missing or undefined, the walk of the path finds
\* nothing: the result is the documentation, the suggestions or not-found.
UndefinedSegmentIsNotFound ==
  (Inspected /\ executor /\ Expression # <<>> /\ EvaluationFails
   /\ MissingOrUndefined)
    => /\ result.does = "returns"
       /\ IF getBuiltinDocumentation(Expression) # <<>>
          THEN result.found
               /\ DataText("text/plain")
                    = Expression \o <<": ">> \o getBuiltinDocumentation(Expression)
          ELSE IF Resembling # {}
          THEN result.found
               /\ SubSeq(DataText("text/plain"), 1, Len(Expression) + 2)
                    = <<"'">> \o Expression \o <<"' not found. Did you mean: ">>
          ELSE result = NotFound

\* C22: inspect does not throw; when the evaluation fails, the result is the
\* first of: the description of the value the walk of the path reaches (a
\* last segment that is present and undefined included), the documentation
\* of the table, at most five resembling names of the global scope; and it
\* is not-found only when there is none of them.
FallbacksInOrder ==
  (Inspected /\ executor /\ Expression # <<>> /\ EvaluationFails)
    => /\ result.does = "returns"
       /\ IF RuntimeFinds
          THEN /\ result.found
               /\ result.data
                    = withDoc(buildInspectionData(
                                Expression, valueAt(InspectScope, Parts),
                                args[3]).data,
                              getBuiltinDocumentation(Expression))
          ELSE IF getBuiltinDocumentation(Expression) # <<>>
          THEN result.found
               /\ DataText("text/plain")
                    = Expression \o <<": ">> \o getBuiltinDocumentation(Expression)
          ELSE IF Resembling # {}
          THEN /\ result.found
               /\ \E names \in SUBSET Resembling :
                    /\ names # {}
                    /\ Cardinality(names) <= 5
                    /\ (Cardinality(Resembling) >= 5 => Cardinality(names) = 5)
                    /\ \E order \in [1..Cardinality(names) -> names] :
                         /\ \A i, j \in DOMAIN order : i # j => order[i] # order[j]
                         /\ DataText("text/plain")
                              = <<"'">> \o Expression
                                \o <<"' not found. Did you mean: ">>
                                \o join(order, <<", ">>) \o <<"?">>
          ELSE result = NotFound

\* The name Math is not in the global scope but the table documents it, and
\* Date resembles it: the documentation is the result.
FallbacksInOrderWitness ==
  /\ Inspected
  /\ executor
  /\ args[1] = <<"M", "a", "t", "h">>
  /\ args[2] = 4
  /\ EvaluationFails
  /\ ~RuntimeFinds
  /\ Resembling # {}
  /\ result.found
  /\ DataText("text/plain")
       = <<"M", "a", "t", "h", ": ",
           "The Math object provides mathematical constants and functions.">>

(***************************************************************************)
(* Properties of cleanStackTrace, under SpecClean.                         *)
(***************************************************************************)
Cleaned == result # Absent

\* Whether a line mentions the internals of the engine.
Internal(line) ==
  \/ includes(line, <<"m", "a", "k", "e", "A", "s", "y", "n", "c", "F", "r",
                      "o", "m", "C", "o", "d", "e">>)
  \/ includes(line, <<"n", "e", "w", " ", "F", "u", "n", "c", "t", "i", "o", "n">>)
  \/ includes(line, <<"a", "s", "y", "n", "c", "F", "u", "n", "c", "t", "i",
                      "o", "n">>)

\* The lines of a text.
LinesOf(text) == split(text)

\* The lines of the stack before its first internal line.
Kept ==
  SubSeq(LinesOf(args[1]), 1,
         CHOOSE n \in 0..Len(LinesOf(args[1])) :
           /\ \A i \in 1..n : ~Internal(LinesOf(args[1])[i])
           /\ n < Len(LinesOf(args[1])) => Internal(LinesOf(args[1])[n + 1]))

\* C23: cleanStackTrace returns the lines of the stack before the first line
\* that mentions makeAsyncFromCode, new Function or asyncFunction, joined in
\* their order: no internal line is left, a stack without an internal line is
\* returned as it is, and cleaning the result changes nothing.
CleanStackTraceKeepsThePrefix ==
  Cleaned =>
    /\ result.text = join(Kept, <<"\n">>)
    /\ startsWith(args[1], result.text)
    /\ \A i \in DOMAIN LinesOf(result.text) : ~Internal(LinesOf(result.text)[i])
    /\ (\A i \in DOMAIN LinesOf(args[1]) : ~Internal(LinesOf(args[1])[i]))
         => result.text = args[1]
    /\ cleanStackTrace(result.text) = result.text

\* A stack whose second line is internal and whose third line is not.
CleanStackTraceKeepsThePrefixWitness ==
  /\ Cleaned
  /\ Len(LinesOf(args[1])) = 3
  /\ ~Internal(LinesOf(args[1])[1])
  /\ Internal(LinesOf(args[1])[2])
  /\ ~Internal(LinesOf(args[1])[3])
  /\ LinesOf(args[1])[3] # <<>>
  /\ result.text = LinesOf(args[1])[1]
  /\ result.text # <<>>

(***************************************************************************)
(* Properties of the outputs of a cell, under SpecOutputs.                 *)
(***************************************************************************)
\* C24: the output calls of a running cell are published in the order in
\* which the code made them, and all of them are published when the reply of
\* the request is returned.
OutputsInProgramOrder ==
  /\ \A i, j \in DOMAIN result.published :
       i < j => result.published[i].call < result.published[j].call
  /\ result.replied
       => \A k \in DOMAIN args :
            args[k] # "await"
              => \E i \in DOMAIN result.published : result.published[i].call = k

(***************************************************************************)
(* Properties of the export pass on destructuring patterns, under          *)
(* SpecExports.                                                            *)
(***************************************************************************)
\* The identifiers a pattern binds.
RECURSIVE Binds(_)
Binds(pattern) ==
  IF pattern.type = "Identifier" THEN { pattern.name }
  ELSE IF pattern.type = "AssignmentPattern" THEN Binds(pattern.left)
  ELSE IF pattern.type = "RestElement" THEN Binds(pattern.argument)
  ELSE IF pattern.type = "ArrayPattern"
  THEN UNION { Binds(pattern.elements[i]) : i \in DOMAIN pattern.elements }
  ELSE IF pattern.type = "ObjectPattern"
  THEN UNION { IF isRest(pattern.properties[i])
               THEN Binds(pattern.properties[i])
               ELSE Binds(pattern.properties[i].value) :
               i \in DOMAIN pattern.properties }
  ELSE {}

\* C25: for a top-level declaration with a destructuring pattern the export
\* pass returns, and the keys of the export statements it emits are the
\* identifiers the pattern binds, no more and no fewer: nested patterns,
\* defaults and rest elements are followed, { default: X } exports X and the
\* holes of an array pattern give nothing.
ExportsWhatThePatternBinds ==
  result # Absent =>
    /\ result.does = "returns"
    /\ ExportKeys(result.text) = Binds(args[1])

(***************************************************************************)
(* Properties of DisplayHelper, under SpecDisplay.                         *)
(***************************************************************************)
\* The helpers that display(id) returned on a helper whose callbacks were set.
MadeWithCallbacks ==
  { h \in DOMAIN result.helpers : result.helpers[h].madeWithCallbacks # 0 }

\* The display data helper h handed to the display callback with which it
\* was made, tagged with its display id.
DeliveredBy(h) ==
  { i \in DOMAIN result.delivered :
      /\ result.delivered[i].by = h
      /\ result.delivered[i].callback = result.helpers[h].madeWithCallbacks
      /\ result.delivered[i].transient = result.helpers[h].displayId }

\* C28: a helper returned by display(id) on a helper whose callbacks were set
\* hands the data of every display method called on it to that display
\* callback, tagged with transient.display_id = id, and stores none of it as
\* its result.
ReturnedHelperDelivers ==
  \A h \in MadeWithCallbacks :
    result.helpers[h].displayId \notin {"undefined", ""} =>
      /\ Cardinality(DeliveredBy(h)) = result.helpers[h].sent
      /\ result.helpers[h].result = NoResult

(***************************************************************************)
(* Properties of dispose(), under SpecDispose.                             *)
(***************************************************************************)
\* C30: once dispose() has returned the kernel has no message listener on
\* the host window and has processed no message since, whether dispose()
\* came while _initIFrame waited for the load event or after it had
\* finished; a second dispose() changes nothing.
DisposedKernelListensNoMore ==
  result.isDisposed =>
    /\ result.listeners = 0
    /\ result.late = 0

(***************************************************************************)
(* Properties of the module-resolution policy, under SpecResolve.          *)
(***************************************************************************)
UrlSchemes == {"http://", "https://", "data:", "file://", "blob:"}

\* The configured base URL without its trailing slash.
Stem(baseUrl) ==
  IF Len(baseUrl) > 0 /\ baseUrl[Len(baseUrl)] = "/"
  THEN SubSeq(baseUrl, 1, Len(baseUrl) - 1) ELSE baseUrl

\* C7: a specifier that starts with http://, https://, data:, file:// or
\* blob: is returned unchanged, whatever the configuration.
UrlsPassThrough ==
  (source # <<>> /\ source[1] \in UrlSchemes) => resolved = source

UrlsPassThroughWitness ==
  /\ source # <<>>
  /\ source[1] = "blob:"
  /\ config.enabled
  /\ config.enableAutoNpm
  /\ resolved = source

\* C8: with magic imports and auto-npm enabled, a specifier that starts with
\* neither a URL scheme nor npm/ nor gh/ resolves to the base URL, one
\* slash, npm/ and the specifier (lodash to a URL that ends in
\* npm/lodash/+esm); a specifier that starts with npm/ or gh/ follows the
\* base URL and its slash directly.
BareSpecifiersGetNpm ==
  (source # <<>> /\ config.enabled /\ config.enableAutoNpm) =>
    /\ (source[1] \notin UrlSchemes \cup {"npm/", "gh/"})
       => /\ startsWith(resolved, Stem(config.baseUrl) \o <<"/", "npm/">> \o source)
          /\ source = <<"lodash">>
             => endsWith(resolved, <<"/", "npm/", "lodash", "/", "+esm">>)
    /\ source[1] \in {"npm/", "gh/"}
       => startsWith(resolved, Stem(config.baseUrl) \o <<"/">> \o source)

BareSpecifiersGetNpmWitness ==
  /\ source = <<"lodash">>
  /\ config = [enabled |-> TRUE, baseUrl |-> <<"https://", "cdn.jsdelivr.net">>,
               enableAutoNpm |-> TRUE]
  /\ resolved = <<"https://", "cdn.jsdelivr.net", "/", "npm/", "lodash", "/", "+esm">>

\* The policy rewrites the specifier: magic imports are enabled and the
\* specifier starts with no URL scheme.
Rewritten == source # <<>> /\ config.enabled /\ source[1] \notin UrlSchemes

EndsInModuleSuffix ==
  source[Len(source)] \in {".js", ".mjs", ".cjs", ".wasm", "+esm"}

\* What precedes the specifier in a rewritten URL.
Fronts ==
  { Stem(config.baseUrl) \o <<"/">>, Stem(config.baseUrl) \o <<"/", "npm/">> }

\* C9 as stated: the policy appends "/+esm" exactly when the specifier ends
\* in none of .js, .mjs, .cjs, .wasm, +esm and not in "/", and appends
\* nothing in every other case.
EsmSuffixUnlessSlash ==
  Rewritten =>
    \E front \in Fronts :
      resolved = front \o source \o
        (IF ~ EndsInModuleSuffix /\ source[Len(source)] # "/"
         THEN <<"/", "+esm">> ELSE <<>>)

\* C9 as amended: nothing is appended to a specifier that ends in .js, .mjs,
\* .cjs, .wasm or +esm; "+esm" is appended to one that ends in "/"; "/+esm"
\* is appended to every other one.
EsmSuffixRule ==
  Rewritten =>
    \E front \in Fronts :
      resolved = front \o source \o
        (IF EndsInModuleSuffix THEN <<>>
         ELSE IF source[Len(source)] = "/" THEN <<"+esm">>
         ELSE <<"/", "+esm">>)

EsmSuffixRuleWitness ==
  /\ Rewritten
  /\ source = <<"lodash", "/">>
  /\ endsWith(resolved, <<"lodash", "/", "+esm">>)

====
